---- MODULE Spec2Model ----
(***************************************************************************)
(* Rent-versus-buy projection engine (src/sourcePython.py and              *)
(* src/streamlitapp.py): the monthly amortization, the yearly rent, buy    *)
(* and investment schedules and the summary comparison.                    *)
(*                                                                         *)
(* Every amount and rate of the program is a Python float, an IEEE-754     *)
(* binary64 number.  The model computes with the same numbers: a float is  *)
(* a sign, a 53-bit significand and an exponent, and every operation       *)
(* rounds its exact result to nearest, ties to even, as the hardware does. *)
(* Significands are wider than TLC's integers, so they are kept as         *)
(* little-endian sequences of 13-bit limbs.  The exponent is unbounded:    *)
(* no value of the model comes near the overflow or subnormal range.       *)
(***************************************************************************)
EXTENDS Integers, Sequences, FiniteSets, TLC

\* ------------------------------------------------------------------------
\* Naturals of any size: little-endian limbs in base 2^13, no leading zero.
\*
\* Two habits of this and of the next two sections serve TLC, not the
\* arithmetic.  The operations on floats are reached through the one
\* recursive operator Arith, defined after them: FAdd(x, y) is
\* Arith("FAdd", x, y, 0, 0), which is FAddDef(x, y).  TLC's coverage
\* statistics copy the definition of an operator to every place that uses
\* it, except where the operator is recursive and under evaluation already;
\* going through Arith keeps one copy of the arithmetic per use in the
\* program instead of one per path through its layers.  And a value is
\* tested against itself (v # v, never true) where it is to be computed
\* before the operators using it are entered: TLC computes an operand only
\* when it is first used, inside everything that waits for it, and a long
\* computation started that late nests deeper than TLC's stack allows.
\* ------------------------------------------------------------------------
Base == 2^13

RECURSIVE Arith(_, _, _, _, _)

NDivMod(a, b) == Arith("NDivMod", a, b, 0, 0)
Round(neg, n, e, sticky) == Arith("Round", neg, n, e, sticky)
FromInt(i) == Arith("FromInt", i, 0, 0, 0)
FAdd(x, y) == Arith("FAdd", x, y, 0, 0)
FMul(x, y) == Arith("FMul", x, y, 0, 0)
FDiv(x, y) == Arith("FDiv", x, y, 0, 0)
FPow(x, n) == Arith("FPow", x, n, 0, 0)
XMul(a, b) == Arith("XMul", a, b, 0, 0)
Dec(n, d) == Arith("Dec", n, d, 0, 0)
series_sum(s) == Arith("series_sum", s, 0, 0, 0)

Limb(a, i) == IF i >= 1 /\ i <= Len(a) THEN a[i] ELSE 0

MaxOf(x, y) == IF x >= y THEN x ELSE y
MinOf(x, y) == IF x <= y THEN x ELSE y

\* the number of limbs of s below its leading zeros
TopLimb(s) ==
    IF \A k \in 1..Len(s) : s[k] = 0 THEN 0
    ELSE CHOOSE n \in 1..Len(s) : s[n] # 0 /\ \A k \in (n + 1)..Len(s) : s[k] = 0

Trim(s) == SubSeq(s, 1, TopLimb(s))

\* Columns of 0 .. 2^31 - 1 spread over the two columns above, by their
\* digits to Base: spread twice, no column is above Base + 1
Spread(cols) ==
    <<>> \o [i \in 1..(Len(cols) + 2) |->
               (Limb(cols, i) % Base)
               + ((Limb(cols, i - 1) \div Base) % Base)
               + (Limb(cols, i - 2) \div (Base * Base))]

\* whether a carry enters column i of s (columns of 0 .. Base + 1): the
\* nearest column below i that is not Base - 1 has reached Base
CarryInto(s, i) ==
    \E j \in 1..(i - 1) : s[j] >= Base /\ \A k \in (j + 1)..(i - 1) : s[k] = Base - 1

Carried(s) ==
    <<>> \o [i \in 1..Len(s) |-> (s[i] + (IF CarryInto(s, i) THEN 1 ELSE 0)) % Base]

\* the limbs of the natural whose columns (of 0 .. 2^31 - 1) are cols
Trimmed(limbs) == IF limbs # limbs THEN <<>> ELSE Trim(limbs)

SpreadTwice(twice) == IF twice # twice THEN <<>> ELSE Trimmed(Carried(twice))

SpreadOnce(once) == IF once # once THEN <<>> ELSE SpreadTwice(Spread(once))

Normalize(cols) == SpreadOnce(Spread(cols))

NatFromInt(n) == Normalize(<<n>>)

NAdd(a, b) == Normalize(<<>> \o [i \in 1..MaxOf(Len(a), Len(b)) |-> Limb(a, i) + Limb(b, i)])

\* whether a borrow leaves column i of d (columns of 1 - Base .. Base - 1):
\* the nearest column below i that is not 0 is negative
BorrowFrom(d, i) ==
    \E j \in 1..(i - 1) : d[j] < 0 /\ \A k \in (j + 1)..(i - 1) : d[k] = 0

Borrowed(d) ==
    <<>> \o [i \in 1..Len(d) |-> (d[i] - (IF BorrowFrom(d, i) THEN 1 ELSE 0)) % Base]

Differences(a, b) == <<>> \o [i \in 1..MaxOf(Len(a), Len(b)) |-> Limb(a, i) - Limb(b, i)]

\* a - b for a >= b
NSub(a, b) == Trim(Borrowed(Differences(a, b)))

\* the product of limb i of a with the limb of b that meets it in column k
ColTerm(a, b, k, i, hi) == IF i <= hi THEN a[i] * b[k + 1 - i] ELSE 0

\* column k of a * b: the terms i .. hi, four at a time
RECURSIVE ColSum(_, _, _, _, _)
ColSum(a, b, k, i, hi) ==
    IF i > hi THEN 0
    ELSE ColTerm(a, b, k, i, hi) + ColTerm(a, b, k, i + 1, hi)
         + ColTerm(a, b, k, i + 2, hi) + ColTerm(a, b, k, i + 3, hi)
         + ColSum(a, b, k, i + 4, hi)

NMul(a, b) ==
    IF Len(a) = 0 \/ Len(b) = 0 THEN <<>>
    ELSE Normalize(<<>> \o [k \in 1..(Len(a) + Len(b)) |->
                              ColSum(a, b, k, MaxOf(1, k + 1 - Len(b)), MinOf(Len(a), k))])

\* the highest limb in which a and b, of one length and unequal, differ
TopDifference(a, b) ==
    CHOOSE i \in 1..Len(a) : a[i] # b[i] /\ \A k \in (i + 1)..Len(a) : a[k] = b[k]

\* -1, 0, 1 as a < b, a = b, a > b (both without leading zeros)
NCmp(a, b) ==
    IF Len(a) < Len(b) THEN -1
    ELSE IF Len(a) > Len(b) THEN 1
    ELSE IF a = b THEN 0
    ELSE IF a[TopDifference(a, b)] < b[TopDifference(a, b)] THEN -1
    ELSE 1

\* a * 2^k
NShl(a, k) ==
    IF Len(a) = 0 THEN <<>>
    ELSE Normalize(<<>> \o [i \in 1..(Len(a) + (k \div 13)) |->
                      IF i <= k \div 13 THEN 0 ELSE a[i - (k \div 13)] * (2^(k % 13))])

\* floor(a / 2^k)
NShr(a, k) ==
    IF Len(a) <= k \div 13 THEN <<>>
    ELSE Trim(<<>> \o [i \in 1..(Len(a) - (k \div 13)) |->
                 (a[i + (k \div 13)] \div (2^(k % 13)))
                 + (Limb(a, i + (k \div 13) + 1) % (2^(k % 13))) * (2^(13 - (k % 13)))])

\* bit i of a (bit 0 is the lowest)
NBit(a, i) == (Limb(a, (i \div 13) + 1) \div (2^(i % 13))) % 2

\* whether any of the bits 0..k-1 of a is set
NLowBits(a, k) ==
    \/ \E j \in 1..MinOf(Len(a), k \div 13) : a[j] # 0
    \/ Limb(a, (k \div 13) + 1) % (2^(k % 13)) # 0

\* the number of bits of x, a natural below 2^30
BitsOf(x) == CHOOSE k \in 0..30 : (k = 0 \/ x \div (2^(k - 1)) > 0) /\ x \div (2^k) = 0

NBitLen(a) == IF Len(a) = 0 THEN 0 ELSE 13 * (Len(a) - 1) + BitsOf(a[Len(a)])

\* the value of a natural below 2^31
ToInt(a) == Limb(a, 1) + Limb(a, 2) * Base + Limb(a, 3) * Base * Base

\* the greatest d with d * b <= r, counting up from a lower estimate d
RECURSIVE DigitUp(_, _, _)
DigitUp(r, b, d) ==
    IF d < 0 THEN d
    ELSE IF NCmp(r, NMul(b, NatFromInt(d + 1))) >= 0 THEN DigitUp(r, b, d + 1)
    ELSE d

\* floor(rt / bt), or floor(rt / (bt + 1)) where bits of the divisor were cut
DigitGuess(rt, bt, cut) == IF cut THEN rt \div (bt + 1) ELSE rt \div bt

\* floor(r / b) for r < b * Base: estimated from the leading 15 bits of b
\* (sh is the number of bits below them; never too high, at most 2 too low),
\* then corrected
QuoDigitAt(r, b, sh) ==
    DigitUp(r, b, DigitGuess(ToInt(NShr(r, sh)), ToInt(NShr(b, sh)), sh > 0))

QuoDigit(r, b) == QuoDigitAt(r, b, MaxOf(NBitLen(b) - 15, 0))

\* the quotient q with the next lower digit d, without leading zeros
DigitBelow(q, d) == IF d = 0 /\ Len(q) = 0 THEN q ELSE <<d>> \o q

DivReduce(b, q, r, d) ==
    IF d < 0 THEN <<q, r>> ELSE <<DigitBelow(q, d), NSub(r, NMul(b, NatFromInt(d)))>>

DivDigit(b, q, r) == IF r # r THEN <<q, r>> ELSE DivReduce(b, q, r, QuoDigit(r, b))

\* One step of the long division, for limb i of a: qr is <<quotient,
\* remainder>> of the limbs above i, the result that of the limbs from i up.
DivStep(a, b, i, qr) == DivDigit(b, qr[1], Trim(<<a[i]>> \o qr[2]))

\* The steps for the limbs hi down to lo.  The range is halved, not walked,
\* and the upper half's result is computed before the lower half starts,
\* so that the evaluation nests only to the logarithm of the number of
\* steps.
RECURSIVE DivRange(_, _, _, _, _)
DivLower(a, b, lo, hi, qr) == IF qr # qr THEN qr ELSE DivRange(a, b, lo, hi, qr)

DivRange(a, b, lo, hi, qr) ==
    IF lo = hi THEN DivStep(a, b, lo, qr)
    ELSE DivLower(a, b, lo, (lo + hi) \div 2,
                  DivRange(a, b, ((lo + hi) \div 2) + 1, hi, qr))

\* <<floor(a / b), a mod b>> for b # 0: the top Len(b) - 1 limbs of a are
\* below b and start as the remainder
NDivModDef(a, b) ==
    IF Len(a) < Len(b) THEN <<<<>>, a>>
    ELSE DivRange(a, b, 1, Len(a) - Len(b) + 1,
                  <<<<>>, SubSeq(a, Len(a) - Len(b) + 2, Len(a))>>)

\* ------------------------------------------------------------------------
\* Python floats: (-1)^neg * man * 2^exp with man of exactly Precision bits,
\* or man = <<>> for zero (the sign of a zero is not kept: no operation of
\* the program tells -0.0 from 0.0).  Equal numbers are equal records.
\* ------------------------------------------------------------------------
Precision == 53

FZero == [neg |-> FALSE, man |-> <<>>, exp |-> 0]

IsZero(x) == Len(x.man) = 0

\* q is n without its lowest sh bits: whether rounding takes q + 1
RoundsUp(n, sh, q, sticky) ==
    /\ NBit(n, sh - 1) = 1
    /\ (sticky \/ NLowBits(n, sh - 1) \/ NBit(q, 0) = 1)

\* the float of significand q2, of Precision bits or (after a carry) one more
Renorm(neg, q2, e) ==
    IF q2 # q2 THEN FZero
    ELSE IF NBitLen(q2) > Precision
    THEN [neg |-> neg, man |-> NShr(q2, 1), exp |-> e + 1]
    ELSE [neg |-> neg, man |-> q2, exp |-> e]

RoundCut(neg, n, e, sticky, sh, q) ==
    IF q # q THEN FZero
    ELSE Renorm(neg, IF RoundsUp(n, sh, q, sticky) THEN NAdd(q, <<1>>) ELSE q, e + sh)

RoundLen(neg, n, e, sticky, len) ==
    IF len = 0 THEN FZero
    ELSE IF len <= Precision
    THEN [neg |-> neg, man |-> NShl(n, Precision - len), exp |-> e - (Precision - len)]
    ELSE RoundCut(neg, n, e, sticky, len - Precision, NShr(n, len - Precision))

\* The float nearest to (-1)^neg * (n + s) * 2^e, ties to even, where s = 0
\* if ~sticky and 0 < s < 1 if sticky (then n has more than Precision bits).
RoundDef(neg, n, e, sticky) == RoundLen(neg, n, e, sticky, NBitLen(n))

\* int -> float (exact below 2^53)
FromIntDef(i) == Round(i < 0, NatFromInt(IF i < 0 THEN -i ELSE i), 0, FALSE)

FNeg(x) == IF IsZero(x) THEN x ELSE [x EXCEPT !.neg = ~x.neg]

\* hi + lo where a * 2^lo.exp = |hi| and c compares a with |lo|
AddAligned(hi, lo, a, c) ==
    IF hi.neg = lo.neg THEN Round(hi.neg, NAdd(a, lo.man), lo.exp, FALSE)
    ELSE IF c = 0 THEN FZero
    ELSE IF c > 0 THEN Round(hi.neg, NSub(a, lo.man), lo.exp, FALSE)
    ELSE Round(lo.neg, NSub(lo.man, a), lo.exp, FALSE)

AddShifted(hi, lo, a) ==
    IF a # a THEN FZero ELSE AddAligned(hi, lo, a, NCmp(a, lo.man))

\* hi + lo for hi.exp >= lo.exp
AddOrdered(hi, lo) ==
    IF hi.exp - lo.exp >= Precision + 2 THEN hi   \* lo is below a quarter of hi's last place
    ELSE AddShifted(hi, lo, NShl(hi.man, hi.exp - lo.exp))

\* x + y
FAddDef(x, y) ==
    IF IsZero(x) THEN y
    ELSE IF IsZero(y) THEN x
    ELSE IF x.exp >= y.exp THEN AddOrdered(x, y) ELSE AddOrdered(y, x)

\* x - y
FSub(x, y) == FAdd(x, FNeg(y))

\* x * y
FMulDef(x, y) ==
    IF IsZero(x) \/ IsZero(y) THEN FZero
    ELSE Round(x.neg # y.neg, NMul(x.man, y.man), x.exp + y.exp, FALSE)

RoundQuotient(neg, qr, e) ==
    IF qr # qr THEN FZero ELSE Round(neg, qr[1], e, Len(qr[2]) # 0)

\* x / y for y # 0 (Python raises ZeroDivisionError for y = 0)
FDivDef(x, y) ==
    IF IsZero(x) THEN FZero
    ELSE RoundQuotient(x.neg # y.neg, NDivMod(NShl(x.man, Precision + 3), y.man),
                       x.exp - y.exp - (Precision + 3))

IsNegative(d) == ~IsZero(d) /\ d.neg
IsPositive(d) == ~IsZero(d) /\ ~d.neg

\* x < y, x <= y, x > y: the sign of the exact difference, which rounding keeps
FLt(x, y) == IsNegative(FSub(x, y))
FLe(x, y) == ~IsPositive(FSub(x, y))
FGt(x, y) == IsPositive(FSub(x, y))
FGe(x, y) == ~IsNegative(FSub(x, y))

\* Python's max(a, b): a unless b > a
FMax(a, b) == IF FGt(b, a) THEN b ELSE a

\* x ** n for an int n: C's pow, taken as the correctly rounded power.  The
\* power is built by squaring on significands of PowBits bits, cut (not
\* rounded) after each product; for n < 0 the reciprocal is taken at the
\* same width, and only the end result is rounded to a float.
PowBits == Precision + 67

\* the product m * 2^e cut to PowBits bits, sh being the bits m has too many
XCut(m, e, inexact, sh) ==
    IF sh <= 0 THEN [m |-> m, e |-> e, inexact |-> inexact]
    ELSE [m |-> NShr(m, sh), e |-> e + sh, inexact |-> inexact \/ NLowBits(m, sh)]

XCutProduct(m, e, inexact) ==
    IF m # m THEN FZero ELSE XCut(m, e, inexact, NBitLen(m) - PowBits)

XMulDef(a, b) == XCutProduct(NMul(a.m, b.m), a.e + b.e, a.inexact \/ b.inexact)

\* One step of the binary power: h is x ** (m \div 2), the result x ** m
XSquareStep(h, x, m) ==
    IF m % 2 = 1 THEN XMul(XMul(h, h), x) ELSE XMul(h, h)

\* h taken through the steps for the leading lo .. hi bits of n, of len
\* bits.  The range is halved, and the first half's power is computed
\* before the second half starts.
RECURSIVE XPowRange(_, _, _, _, _, _)
XPowUpper(x, n, len, lo, hi, h) == IF h # h THEN h ELSE XPowRange(x, n, len, lo, hi, h)

XPowRange(x, n, len, lo, hi, h) ==
    IF lo = hi THEN XSquareStep(h, x, n \div (2^(len - lo)))
    ELSE XPowUpper(x, n, len, ((lo + hi) \div 2) + 1, hi,
                   XPowRange(x, n, len, lo, (lo + hi) \div 2, h))

\* x ** n for n >= 1, by squaring from the leading bit of n down
XPow(x, n) == IF n = 1 THEN x ELSE XPowRange(x, n, BitsOf(n), 2, BitsOf(n), x)

\* 1 / p rounded to a float, p being |x| ** k and qr the quotient 2^kb / p.m
ReciprocalInexact(neg, p, kb, qr) ==
    IF qr # qr THEN FZero
    ELSE Round(neg, qr[1], (0 - kb) - p.e, p.inexact \/ Len(qr[2]) # 0)

PowRound(neg, p, n) ==
    IF p # p THEN FZero
    ELSE IF n > 0 THEN Round(neg, p.m, p.e, p.inexact)
    ELSE ReciprocalInexact(neg, p, NBitLen(p.m) + PowBits,
                           NDivMod(NShl(<<1>>, NBitLen(p.m) + PowBits), p.m))

PowAbs(x, n, k) ==
    PowRound(x.neg /\ k % 2 = 1, XPow([m |-> x.man, e |-> x.exp, inexact |-> FALSE], k), n)

FPowDef(x, n) ==
    IF n = 0 THEN FromInt(1)
    ELSE IF IsZero(x) THEN FZero
    ELSE PowAbs(x, n, IF n < 0 THEN -n ELSE n)

\* The float nearest to the decimal n/d: what a literal such as 0.05 denotes.
DecDef(n, d) == FDiv(FromInt(n), FromInt(d))

One == FromInt(1)

\* ------------------------------------------------------------------------
\* pandas: Series.sum() of a float column is numpy's add.reduce, which adds
\* fewer than 8 numbers left to right from 0 and otherwise keeps 8 running
\* sums over the blocks of 8, adds those pairwise and then adds the rest.
\* ------------------------------------------------------------------------
\* acc + s[lo] + s[lo + step] + ... + s[hi], added in this order (hi is lo
\* plus a multiple of step); the range is halved and the first half's sum
\* is computed before the second half starts
RECURSIVE FoldAdd(_, _, _, _, _)
FoldOn(acc, s, lo, hi, step) == IF acc # acc THEN acc ELSE FoldAdd(acc, s, lo, hi, step)

FoldAdd(acc, s, lo, hi, step) ==
    IF lo > hi THEN acc
    ELSE IF lo = hi THEN FAdd(acc, s[lo])
    ELSE FoldOn(FoldAdd(acc, s, lo, lo + (((hi - lo) \div step) \div 2) * step, step),
                s, lo + ((((hi - lo) \div step) \div 2) + 1) * step, hi, step)

\* the running sum of lane j: s[j] + s[j + 8] + ... up to the last full block
Lane(s, j, full) == FoldAdd(s[j], s, j + 8, full - 8 + j, 8)

RECURSIVE Pairwise(_, _, _)
Pairwise(r, lo, hi) ==
    IF lo = hi THEN r[lo]
    ELSE FAdd(Pairwise(r, lo, (lo + hi) \div 2), Pairwise(r, ((lo + hi) \div 2) + 1, hi))

\* the lanes' sums added pairwise, then the numbers after the last full block
BlockLanes(s, full, lanes) ==
    IF lanes # lanes THEN FZero
    ELSE FoldOn(Pairwise(lanes, 1, 8), s, full + 1, Len(s), 1)

BlockSum(s, full) == BlockLanes(s, full, <<>> \o [j \in 1..8 |-> Lane(s, j, full)])

series_sumDef(s) ==
    IF Len(s) < 8 THEN FoldAdd(FZero, s, 1, Len(s), 1)
    ELSE BlockSum(s, Len(s) - (Len(s) % 8))

\* Every argument is computed before the operation is entered.
Arith(op, a, b, c, d) ==
    CASE (a # a \/ b # b \/ c # c \/ d # d) -> a
      [] op = "NDivMod" -> NDivModDef(a, b)
      [] op = "Round" -> RoundDef(a, b, c, d)
      [] op = "FromInt" -> FromIntDef(a)
      [] op = "FAdd" -> FAddDef(a, b)
      [] op = "FMul" -> FMulDef(a, b)
      [] op = "FDiv" -> FDivDef(a, b)
      [] op = "FPow" -> FPowDef(a, b)
      [] op = "XMul" -> XMulDef(a, b)
      [] op = "Dec" -> DecDef(a, b)
      [] op = "series_sum" -> series_sumDef(a)

Column(df, name) == <<>> \o [i \in 1..Len(df) |-> df[i][name]]


\* ------------------------------------------------------------------------
\* Cell 3: utility functions
\* ------------------------------------------------------------------------
\* 1 - (1 + monthly_rate) ** (-num_payments), the divisor of the annuity formula
payment_denominator(annual_interest_rate, years) ==
    LET monthly_rate == FDiv(annual_interest_rate, FromInt(12))
        num_payments == years * 12
    IN  FSub(One, FPow(FAdd(One, monthly_rate), 0 - num_payments))

\* whether calculate_monthly_mortgage_payment raises ZeroDivisionError
payment_raises(principal, annual_interest_rate, years) ==
    LET monthly_rate == FDiv(annual_interest_rate, FromInt(12))
        num_payments == years * 12
    IN  IF IsZero(monthly_rate) THEN num_payments = 0
        ELSE IsZero(payment_denominator(annual_interest_rate, years))

\* the payment with the annual rate taken for the monthly one
payment_at_annual_rate(principal, annual_interest_rate, years) ==
    LET monthly_rate == annual_interest_rate
        num_payments == years * 12
    IN  IF IsZero(monthly_rate) THEN FDiv(principal, FromInt(num_payments))
        ELSE FMul(principal,
                  FDiv(monthly_rate, FSub(One, FPow(FAdd(One, monthly_rate), 0 - num_payments))))

\* the payment with the interest-free loan spread over the years, not the months
payment_over_years(principal, annual_interest_rate, years) ==
    LET monthly_rate == FDiv(annual_interest_rate, FromInt(12))
        num_payments == years
    IN  IF IsZero(monthly_rate) THEN FDiv(principal, FromInt(num_payments))
        ELSE FMul(principal,
                  FDiv(monthly_rate, payment_denominator(annual_interest_rate, years)))

\* the payment with the power (1 + r/12) ** num_payments, its minus sign lost
payment_rising_power(principal, annual_interest_rate, years) ==
    LET monthly_rate == FDiv(annual_interest_rate, FromInt(12))
        num_payments == years * 12
    IN  IF IsZero(monthly_rate) THEN FDiv(principal, FromInt(num_payments))
        ELSE FMul(principal,
                  FDiv(monthly_rate, FSub(One, FPow(FAdd(One, monthly_rate), num_payments))))

calculate_monthly_mortgage_payment(principal, annual_interest_rate, years) ==
    LET monthly_rate == FDiv(annual_interest_rate, FromInt(12))
        num_payments == years * 12
    IN  IF IsZero(monthly_rate) THEN FDiv(principal, FromInt(num_payments))
        ELSE FMul(principal,
                  FDiv(monthly_rate, payment_denominator(annual_interest_rate, years)))

\* the rent raised in year 1 already
apply_rent_increase_at_once(initial_rent, rent_increase_rate, year) ==
    FMul(initial_rent, FPow(FAdd(One, rent_increase_rate), year))

apply_rent_increase(initial_rent, rent_increase_rate, year) ==
    FMul(initial_rent, FPow(FAdd(One, rent_increase_rate), year - 1))

\* the cost deflated, not inflated, over the years
apply_inflation_deflating(base_cost, inflation_rate, year) ==
    FMul(base_cost, FPow(FAdd(One, inflation_rate), 1 - year))

\* the cost inflated in year 1 already
apply_inflation_at_once(base_cost, inflation_rate, year) ==
    FMul(base_cost, FPow(FAdd(One, inflation_rate), year))

apply_inflation(base_cost, inflation_rate, year) ==
    FMul(base_cost, FPow(FAdd(One, inflation_rate), year - 1))

\* ------------------------------------------------------------------------
\* Configurations (the inputs dictionary)
\* ------------------------------------------------------------------------
MaxYears == 3
MaxTerm == 2

\* Cell 2 of the notebook: the default inputs, less the horizon, the term
\* and the mortgage rate
NotebookDefaults ==
    [general |-> [inflation_rate |-> Dec(25, 1000),
                  savings_interest_rate |-> Dec(35, 1000),
                  house_appreciation_rate |-> Dec(25, 1000),
                  rent_increase_rate |-> Dec(15, 1000)],
     rent |-> [current_monthly_rent |-> FromInt(17654),
               annual_renters_insurance |-> FZero],
     buy |-> [cash_price |-> FromInt(6200000),
              downpayment |-> FromInt(1200000),
              closing_costs |-> FromInt(200000),
              property_value_tax_rate_below_9200000 |-> Dec(51, 10000),
              property_value_tax_rate_above_9200000 |-> Dec(14, 1000),
              land_tax_rate |-> Dec(51, 10000),
              tax_authority_property_value |-> FromInt(6822000),
              tax_authority_land_value |-> FromInt(3869000),
              annual_revaluation_rate |-> Dec(15, 1000),
              base_insurance |-> FromInt(30000),
              base_maintenance |-> FromInt(5000),
              base_renovations |-> FromInt(10000),
              community_ownership_cost |-> FromInt(5609),
              monthly_car_lease |-> FZero,
              interest_deduction_rate |-> Dec(33, 100)],
     selling |-> [agent_commission_rate |-> Dec(2, 100),
                  capital_gains_tax_rate |-> FZero]]

\* A dearer house in a falling market: the valuation crosses the tax
\* threshold in year 2, the sale is below the purchase price, and the
\* renter is insured and the owner leases a car.
FallingMarket ==
    [general |-> [inflation_rate |-> Dec(2, 100),
                  savings_interest_rate |-> Dec(4, 100),
                  house_appreciation_rate |-> FNeg(Dec(2, 100)),
                  rent_increase_rate |-> Dec(2, 100)],
     rent |-> [current_monthly_rent |-> FromInt(30000),
               annual_renters_insurance |-> FromInt(1200)],
     buy |-> [cash_price |-> FromInt(12000000),
              downpayment |-> FromInt(3000000),
              closing_costs |-> FromInt(300000),
              property_value_tax_rate_below_9200000 |-> Dec(51, 10000),
              property_value_tax_rate_above_9200000 |-> Dec(14, 1000),
              land_tax_rate |-> Dec(51, 10000),
              tax_authority_property_value |-> FromInt(11400000),
              tax_authority_land_value |-> FromInt(5000000),
              annual_revaluation_rate |-> Dec(15, 1000),
              base_insurance |-> FromInt(40000),
              base_maintenance |-> FromInt(8000),
              base_renovations |-> FromInt(15000),
              community_ownership_cost |-> FromInt(4000),
              monthly_car_lease |-> FromInt(2500),
              interest_deduction_rate |-> Dec(33, 100)],
     selling |-> [agent_commission_rate |-> Dec(2, 100),
                  capital_gains_tax_rate |-> Dec(25, 100)]]

\* A small loan with no taxes and no running costs, rented for the same
\* 10,000 a month the interest-free one-year loan costs: 1,000,000 stays
\* invested at 3% and the year-1 difference is 0.
EvenOutflow ==
    [general |-> [inflation_rate |-> Dec(2, 100),
                  savings_interest_rate |-> Dec(3, 100),
                  house_appreciation_rate |-> Dec(3, 100),
                  rent_increase_rate |-> Dec(2, 100)],
     rent |-> [current_monthly_rent |-> FromInt(10000),
               annual_renters_insurance |-> FZero],
     buy |-> [cash_price |-> FromInt(1020000),
              downpayment |-> FromInt(900000),
              closing_costs |-> FromInt(100000),
              property_value_tax_rate_below_9200000 |-> FZero,
              property_value_tax_rate_above_9200000 |-> FZero,
              land_tax_rate |-> FZero,
              tax_authority_property_value |-> FromInt(1000000),
              tax_authority_land_value |-> FromInt(400000),
              annual_revaluation_rate |-> FZero,
              base_insurance |-> FZero,
              base_maintenance |-> FZero,
              base_renovations |-> FZero,
              community_ownership_cost |-> FZero,
              monthly_car_lease |-> FZero,
              interest_deduction_rate |-> FZero],
     selling |-> [agent_commission_rate |-> Dec(2, 100),
                  capital_gains_tax_rate |-> Dec(25, 100)]]

\* The falling market with a valuation of 11,500,000: 80% of it is the tax
\* threshold of 9,200,000 in year 1, and the revaluation takes it above.
AtThreshold ==
    [FallingMarket EXCEPT !.buy.tax_authority_property_value = FromInt(11500000)]

Profiles == {NotebookDefaults, FallingMarket, EvenOutflow, AtThreshold}

MortgageRates == {FZero, Dec(5, 100)}

WithTerms(p, years, term, rate) ==
    [p EXCEPT !.general = [inflation_rate |-> p.general.inflation_rate,
                           savings_interest_rate |-> p.general.savings_interest_rate,
                           analysis_years |-> years,
                           house_appreciation_rate |-> p.general.house_appreciation_rate,
                           rent_increase_rate |-> p.general.rent_increase_rate],
              !.buy = [f \in DOMAIN p.buy \cup {"mortgage_rate", "mortgage_term_years"} |->
                          IF f = "mortgage_rate" THEN rate
                          ELSE IF f = "mortgage_term_years" THEN term
                          ELSE p.buy[f]]]

\* The term may be 0: the form's "Mortgage Term (years)" field has no minimum.
Configs ==
    {WithTerms(p, years, term, rate) :
        p \in Profiles, years \in 1..MaxYears, term \in 0..MaxTerm, rate \in MortgageRates}

\* ------------------------------------------------------------------------
\* The run: rent_df, buy_df, rent_invest_df and comparison_result are built
\* in this order (sourcePython.py lines 170, 331, 398, 448; streamlitapp.py
\* lines 479-482).  A name not yet bound is None, a list not yet built <<>>.
\* ------------------------------------------------------------------------
None == "None"

TaxThreshold == 9200000

VARIABLES
    inputs,                         \* the configuration dictionary
    pc,                             \* where the run is
    rent_data, rent_df,             \* calculate_rent_scenario: its list, its result
    loan_amount, monthly_payment,   \* calculate_buy_scenario: the mortgage
    mortgage_balance,
    monthly_records, monthly_df,    \* the amortization: the list, the frame with "year"
    tax_authority_property_value,   \* the two valuations, revalued every year
    tax_authority_land_value,
    buy_data, buy_df,
    merged, investment_balance,     \* calculate_rent_investment_scenario
    rent_invest_data, rent_invest_df,
    comparison_result,              \* compare_scenarios
    earlier                         \* the runs before this one, and what each produced

vars == <<inputs, pc, rent_data, rent_df, loan_amount, monthly_payment,
          mortgage_balance, monthly_records, monthly_df,
          tax_authority_property_value, tax_authority_land_value,
          buy_data, buy_df, merged, investment_balance,
          rent_invest_data, rent_invest_df, comparison_result, earlier>>

rentVars == <<rent_data, rent_df>>
mortgageVars == <<loan_amount, monthly_payment, mortgage_balance, monthly_records, monthly_df>>
buyVars == <<tax_authority_property_value, tax_authority_land_value, buy_data, buy_df>>
investVars == <<merged, investment_balance, rent_invest_data, rent_invest_df>>

Start ==
    /\ pc = "rent"
    /\ rent_data = <<>> /\ rent_df = None
    /\ loan_amount = None /\ monthly_payment = None /\ mortgage_balance = None
    /\ monthly_records = <<>> /\ monthly_df = None
    /\ tax_authority_property_value = None /\ tax_authority_land_value = None
    /\ buy_data = <<>> /\ buy_df = None
    /\ merged = None /\ investment_balance = None
    /\ rent_invest_data = <<>> /\ rent_invest_df = None
    /\ comparison_result = None
    /\ earlier = <<>>

Init == inputs \in Configs /\ Start

\* calculate_rent_scenario: one turn of the loop over the years
RentYear ==
    /\ pc = "rent"
    /\ Len(rent_data) < inputs.general.analysis_years
    /\ LET year == Len(rent_data) + 1
           monthly_rent_this_year ==
               apply_rent_increase(inputs.rent.current_monthly_rent,
                                   inputs.general.rent_increase_rate, year)
           annual_rent == FMul(monthly_rent_this_year, FromInt(12))
           total_rent_cost == FAdd(annual_rent, inputs.rent.annual_renters_insurance)
       IN  rent_data' = Append(rent_data,
               [year |-> year,
                monthly_rent |-> monthly_rent_this_year,
                annual_rent |-> annual_rent,
                renters_insurance |-> inputs.rent.annual_renters_insurance,
                total_rent_cost |-> total_rent_cost])
    /\ UNCHANGED <<earlier, inputs, pc, rent_df, mortgageVars, buyVars, investVars,
                   comparison_result>>

\* return pd.DataFrame(rent_data)
RentReturn ==
    /\ pc = "rent"
    /\ Len(rent_data) = inputs.general.analysis_years
    /\ rent_df' = rent_data
    /\ pc' = "buy_setup"
    /\ UNCHANGED <<earlier, inputs, rent_data, mortgageVars, buyVars, investVars,
                   comparison_result>>

\* the setup with the two valuations read once, in the first run, and left as
\* the yearly revaluations of the runs before have made them
BuySetup_keeping_valuations ==
    /\ pc = "buy_setup"
    /\ LET purchase_price == inputs.buy.cash_price
           downpayment == inputs.buy.downpayment
           annual_interest_rate == inputs.buy.mortgage_rate
           mortgage_term == inputs.buy.mortgage_term_years
           loan == FSub(purchase_price, downpayment)
       IN  /\ loan_amount' = loan
           /\ IF Len(earlier) = 0
              THEN /\ tax_authority_property_value' =
                          inputs.buy.tax_authority_property_value
                   /\ tax_authority_land_value' = inputs.buy.tax_authority_land_value
              ELSE UNCHANGED <<tax_authority_property_value, tax_authority_land_value>>
           /\ IF payment_raises(loan, annual_interest_rate, mortgage_term)
              THEN /\ pc' = "error"
                   /\ UNCHANGED <<monthly_payment, mortgage_balance, buy_data,
                                  monthly_records>>
              ELSE /\ monthly_payment' =
                          calculate_monthly_mortgage_payment(loan, annual_interest_rate,
                                                             mortgage_term)
                   /\ mortgage_balance' = loan
                   /\ buy_data' = <<>>
                   /\ monthly_records' = <<>>
                   /\ pc' = "amort"
    /\ UNCHANGED <<earlier, inputs, rentVars, monthly_df, buy_df, investVars,
                   comparison_result>>

\* calculate_buy_scenario up to its first loop: the loan and its payment.
\* A division by zero in the payment ends the run with ZeroDivisionError.
BuySetup ==
    /\ pc = "buy_setup"
    /\ LET purchase_price == inputs.buy.cash_price
           downpayment == inputs.buy.downpayment
           annual_interest_rate == inputs.buy.mortgage_rate
           mortgage_term == inputs.buy.mortgage_term_years
           loan == FSub(purchase_price, downpayment)
       IN  /\ loan_amount' = loan
           /\ tax_authority_property_value' = inputs.buy.tax_authority_property_value
           /\ tax_authority_land_value' = inputs.buy.tax_authority_land_value
           /\ IF payment_raises(loan, annual_interest_rate, mortgage_term)
              THEN /\ pc' = "error"
                   /\ UNCHANGED <<monthly_payment, mortgage_balance, buy_data,
                                  monthly_records>>
              ELSE /\ monthly_payment' =
                          calculate_monthly_mortgage_payment(loan, annual_interest_rate,
                                                             mortgage_term)
                   /\ mortgage_balance' = loan
                   /\ buy_data' = <<>>
                   /\ monthly_records' = <<>>
                   /\ pc' = "amort"
    /\ UNCHANGED <<earlier, inputs, rentVars, monthly_df, buy_df, investVars,
                   comparison_result>>

\* month m of the schedule: what the loop body records, given the balance
\* before the month
month_record_annual_interest(m, balance_before, payment, annual_interest_rate) ==
    LET monthly_interest == FMul(balance_before, annual_interest_rate)
        monthly_principal == FSub(payment, monthly_interest)
    IN  [month |-> m,
         interest_paid |-> monthly_interest,
         principal_paid |-> monthly_principal,
         mortgage_balance |-> FMax(FSub(balance_before, monthly_principal), FZero)]

month_record_unfloored(m, balance_before, payment, annual_interest_rate) ==
    LET monthly_interest == FMul(balance_before, FDiv(annual_interest_rate, FromInt(12)))
        monthly_principal == FSub(payment, monthly_interest)
    IN  [month |-> m,
         interest_paid |-> monthly_interest,
         principal_paid |-> monthly_principal,
         mortgage_balance |-> FSub(balance_before, monthly_principal)]

\* the record with the principal portion floored at 0 as the balance is
month_record_principal_floored(m, balance_before, payment, annual_interest_rate) ==
    LET monthly_interest == FMul(balance_before, FDiv(annual_interest_rate, FromInt(12)))
        monthly_principal == FMax(FSub(payment, monthly_interest), FZero)
    IN  [month |-> m,
         interest_paid |-> monthly_interest,
         principal_paid |-> monthly_principal,
         mortgage_balance |-> FMax(FSub(balance_before, monthly_principal), FZero)]

month_record(m, balance_before, payment, annual_interest_rate) ==
    LET monthly_interest == FMul(balance_before, FDiv(annual_interest_rate, FromInt(12)))
        monthly_principal == FSub(payment, monthly_interest)
    IN  [month |-> m,
         interest_paid |-> monthly_interest,
         principal_paid |-> monthly_principal,
         mortgage_balance |-> FMax(FSub(balance_before, monthly_principal), FZero)]

\* the month-by-month schedule: one turn of the loop
AmortMonth ==
    /\ pc = "amort"
    /\ Len(monthly_records) < inputs.buy.mortgage_term_years * 12
    /\ mortgage_balance' =
           month_record(Len(monthly_records) + 1, mortgage_balance, monthly_payment,
                        inputs.buy.mortgage_rate).mortgage_balance
    /\ monthly_records' = Append(monthly_records,
           month_record(Len(monthly_records) + 1, mortgage_balance, monthly_payment,
                        inputs.buy.mortgage_rate))
    /\ UNCHANGED <<earlier, inputs, pc, rentVars, loan_amount, monthly_payment, monthly_df,
                   buyVars, investVars, comparison_result>>

\* the monthly loop left after a year of months
AmortDone_after_a_year ==
    /\ pc = "amort"
    /\ Len(monthly_records) >= 12
    /\ monthly_df' = [i \in 1..Len(monthly_records) |->
                        [month |-> monthly_records[i].month,
                         interest_paid |-> monthly_records[i].interest_paid,
                         principal_paid |-> monthly_records[i].principal_paid,
                         mortgage_balance |-> monthly_records[i].mortgage_balance,
                         year |-> ((monthly_records[i].month - 1) \div 12) + 1]]
    /\ pc' = "buy"
    /\ UNCHANGED <<earlier, inputs, rentVars, loan_amount, monthly_payment, mortgage_balance,
                   monthly_records, buyVars, investVars, comparison_result>>

\* monthly_df = pd.DataFrame(monthly_records) with its "year" column
AmortDone ==
    /\ pc = "amort"
    /\ Len(monthly_records) = inputs.buy.mortgage_term_years * 12
    /\ monthly_df' = [i \in 1..Len(monthly_records) |->
                        [month |-> monthly_records[i].month,
                         interest_paid |-> monthly_records[i].interest_paid,
                         principal_paid |-> monthly_records[i].principal_paid,
                         mortgage_balance |-> monthly_records[i].mortgage_balance,
                         year |-> ((monthly_records[i].month - 1) \div 12) + 1]]
    /\ pc' = "buy"
    /\ UNCHANGED <<earlier, inputs, rentVars, loan_amount, monthly_payment, mortgage_balance,
                   monthly_records, buyVars, investVars, comparison_result>>

\* the tax with the whole value, not the excess, at the higher rate
property_value_tax_whole_at_higher(valuation, rate_below, rate_above) ==
    LET taxable_value == FMul(valuation, Dec(8, 10))
    IN  IF FLe(taxable_value, FromInt(TaxThreshold))
        THEN FMul(taxable_value, rate_below)
        ELSE FMul(taxable_value, rate_above)

\* the two-tier property value tax on 80% of the valuation
property_value_tax(valuation, rate_below, rate_above) ==
    LET taxable_value == FMul(valuation, Dec(8, 10))
    IN  IF FLe(taxable_value, FromInt(TaxThreshold))
        THEN FMul(taxable_value, rate_below)
        ELSE FAdd(FMul(FromInt(TaxThreshold), rate_below),
                  FMul(FSub(taxable_value, FromInt(TaxThreshold)), rate_above))

\* the land tax on the whole valuation
land_tax_undiscounted(valuation, rate) == FMul(valuation, rate)

\* the land tax on the valuation less 20%
land_tax(valuation, rate) ==
    FMul(FMul(valuation, FSub(One, Dec(20, 100))), rate)

\* the year's figures taken from all the months of the schedule
year_rollup_unfiltered(year) ==
    LET year_df == monthly_df
    IN  IF Len(year_df) = 0
        THEN [interest |-> FZero, principal |-> FZero, balance |-> FZero]
        ELSE [interest |-> series_sum(Column(year_df, "interest_paid")),
              principal |-> series_sum(Column(year_df, "principal_paid")),
              balance |-> year_df[Len(year_df)].mortgage_balance]

\* the year's figures with the balance after its first month for the closing one
year_rollup_first_month(year) ==
    LET year_df == SelectSeq(monthly_df, LAMBDA r : r.year = year)
    IN  IF Len(year_df) = 0
        THEN [interest |-> FZero, principal |-> FZero, balance |-> FZero]
        ELSE [interest |-> series_sum(Column(year_df, "interest_paid")),
              principal |-> series_sum(Column(year_df, "principal_paid")),
              balance |-> year_df[1].mortgage_balance]

\* the year's interest, principal and closing balance from its months
year_rollup(year) ==
    LET year_df == SelectSeq(monthly_df, LAMBDA r : r.year = year)
    IN  IF Len(year_df) = 0
        THEN [interest |-> FZero, principal |-> FZero, balance |-> FZero]
        ELSE [interest |-> series_sum(Column(year_df, "interest_paid")),
              principal |-> series_sum(Column(year_df, "principal_paid")),
              balance |-> year_df[Len(year_df)].mortgage_balance]

\* the equity with the outstanding balance left out
net_equity_gross(house_value_end_year, mortgage_balance_end) == house_value_end_year

net_equity(house_value_end_year, mortgage_balance_end) ==
    FSub(house_value_end_year, mortgage_balance_end)

\* the house value left where the year started
house_value_end_flat(house_value_start_year, appreciation_rate) == house_value_start_year

\* the house value a year of appreciation leaves
house_value_end(house_value_start_year, appreciation_rate) ==
    FMul(house_value_start_year, FAdd(One, appreciation_rate))

\* the year's interest with nothing deducted
net_interest_paid_undeducted(interest_paid_this_year, interest_deduction_rate) ==
    interest_paid_this_year

\* the year's interest less the deduction
net_interest_paid(interest_paid_this_year, interest_deduction_rate) ==
    FMul(interest_paid_this_year, FSub(One, interest_deduction_rate))

\* the yearly schedule of calculate_buy_scenario: one turn of the loop
BuyYear ==
    /\ pc = "buy"
    /\ Len(buy_data) < inputs.general.analysis_years
    /\ LET year == Len(buy_data) + 1
           b == inputs.buy
           inflation_rate == inputs.general.inflation_rate
           roll == year_rollup(year)
           house_value_start_year ==
               IF year = 1 THEN b.cash_price ELSE buy_data[Len(buy_data)].house_value_end
           house_value_end_year ==
               house_value_end(house_value_start_year,
                               inputs.general.house_appreciation_rate)
           property_value_tax_this_year ==
               property_value_tax(tax_authority_property_value,
                                  b.property_value_tax_rate_below_9200000,
                                  b.property_value_tax_rate_above_9200000)
           land_tax_this_year == land_tax(tax_authority_land_value, b.land_tax_rate)
           insurance_this_year == apply_inflation(b.base_insurance, inflation_rate, year)
           maintenance_this_year == apply_inflation(b.base_maintenance, inflation_rate, year)
           renovations_this_year == apply_inflation(b.base_renovations, inflation_rate, year)
           community_ownership_cost_this_year ==
               apply_inflation(FMul(b.community_ownership_cost, FromInt(12)),
                               inflation_rate, year)
           car_lease_this_year ==
               apply_inflation(FMul(b.monthly_car_lease, FromInt(12)), inflation_rate, year)
           net_interest_paid_this_year ==
               net_interest_paid(roll.interest, b.interest_deduction_rate)
           total_annual_outflow ==
               FAdd(FAdd(FAdd(FAdd(FAdd(FAdd(FAdd(FAdd(
                   net_interest_paid_this_year,
                   roll.principal),
                   property_value_tax_this_year),
                   land_tax_this_year),
                   insurance_this_year),
                   maintenance_this_year),
                   renovations_this_year),
                   community_ownership_cost_this_year),
                   car_lease_this_year)
       IN  /\ buy_data' = Append(buy_data,
                  [year |-> year,
                   interest_paid |-> net_interest_paid_this_year,
                   principal_paid |-> roll.principal,
                   property_value_tax |-> property_value_tax_this_year,
                   land_tax |-> land_tax_this_year,
                   insurance |-> insurance_this_year,
                   maintenance |-> maintenance_this_year,
                   renovations |-> renovations_this_year,
                   community_ownership_cost |-> community_ownership_cost_this_year,
                   car_lease |-> car_lease_this_year,
                   total_outflow |-> total_annual_outflow,
                   mortgage_balance_end |-> roll.balance,
                   house_value_start |-> house_value_start_year,
                   house_value_end |-> house_value_end_year,
                   net_equity_end |-> net_equity(house_value_end_year, roll.balance)])
           /\ tax_authority_property_value' =
                  FMul(tax_authority_property_value, FAdd(One, b.annual_revaluation_rate))
           /\ tax_authority_land_value' =
                  FMul(tax_authority_land_value, FAdd(One, b.annual_revaluation_rate))
    /\ UNCHANGED <<earlier, inputs, pc, rentVars, mortgageVars, buy_df, investVars,
                   comparison_result>>

\* the return with the revalued valuations stored in the configuration
BuyReturn_storing_valuations ==
    /\ pc = "buy"
    /\ Len(buy_data) = inputs.general.analysis_years
    /\ buy_df' = buy_data
    /\ inputs' = [inputs EXCEPT
                     !.buy.tax_authority_property_value = tax_authority_property_value,
                     !.buy.tax_authority_land_value = tax_authority_land_value]
    /\ pc' = "invest_setup"
    /\ UNCHANGED <<earlier, rentVars, mortgageVars, tax_authority_property_value,
                   tax_authority_land_value, buy_data, investVars, comparison_result>>

\* the buy table returned as soon as it has a year, the later years unbuilt
BuyReturn_early ==
    /\ pc = "buy"
    /\ Len(buy_data) >= 1
    /\ buy_df' = buy_data
    /\ pc' = "invest_setup"
    /\ UNCHANGED <<earlier, inputs, rentVars, mortgageVars, tax_authority_property_value,
                   tax_authority_land_value, buy_data, investVars, comparison_result>>

\* return pd.DataFrame(buy_data)
BuyReturn ==
    /\ pc = "buy"
    /\ Len(buy_data) = inputs.general.analysis_years
    /\ buy_df' = buy_data
    /\ pc' = "invest_setup"
    /\ UNCHANGED <<earlier, inputs, rentVars, mortgageVars, tax_authority_property_value,
                   tax_authority_land_value, buy_data, investVars, comparison_result>>

\* calculate_rent_investment_scenario up to its loop
InvestSetup ==
    /\ pc = "invest_setup"
    /\ merged' = [i \in 1..Len(rent_df) |->
                     [year |-> rent_df[i].year,
                      rent_outflow |-> rent_df[i].total_rent_cost,
                      buy_outflow |-> buy_df[i].total_outflow]]
    /\ investment_balance' = FAdd(inputs.buy.downpayment, inputs.buy.closing_costs)
    /\ rent_invest_data' = <<>>
    /\ pc' = "invest"
    /\ UNCHANGED <<earlier, inputs, rentVars, mortgageVars, buyVars, rent_invest_df,
                   comparison_result>>

\* the balance with the return earned before the year's deposit
invest_year_end_before_deposit(investment_start, difference, savings_rate) ==
    FAdd(FMul(investment_start, FAdd(One, savings_rate)), difference)

\* the balance a year's deposit and return leave
invest_year_end(investment_start, difference, savings_rate) ==
    FMul(FAdd(investment_start, difference), FAdd(One, savings_rate))

\* one turn of the investment loop
InvestYear ==
    /\ pc = "invest"
    /\ Len(rent_invest_data) < inputs.general.analysis_years
    /\ LET year == Len(rent_invest_data) + 1
           row == SelectSeq(merged, LAMBDA r : r.year = year)[1]
           rent_cost == row.rent_outflow
           buy_cost == row.buy_outflow
           difference == FSub(buy_cost, rent_cost)
           investment_start == investment_balance
           investment_end ==
               invest_year_end(investment_start, difference,
                               inputs.general.savings_interest_rate)
       IN  /\ investment_balance' = investment_end
           /\ rent_invest_data' = Append(rent_invest_data,
                  [year |-> year,
                   rent_outflow |-> rent_cost,
                   buy_outflow |-> buy_cost,
                   difference |-> difference,
                   investment_start |-> investment_start,
                   investment_end |-> investment_end])
    /\ UNCHANGED <<earlier, inputs, pc, rentVars, mortgageVars, buyVars, merged, rent_invest_df,
                   comparison_result>>

\* df_rent_invest with its final_rent_net_worth column, returned
InvestReturn ==
    /\ pc = "invest"
    /\ Len(rent_invest_data) = inputs.general.analysis_years
    /\ rent_invest_df' =
           [i \in 1..Len(rent_invest_data) |->
               [year |-> rent_invest_data[i].year,
                rent_outflow |-> rent_invest_data[i].rent_outflow,
                buy_outflow |-> rent_invest_data[i].buy_outflow,
                difference |-> rent_invest_data[i].difference,
                investment_start |-> rent_invest_data[i].investment_start,
                investment_end |-> rent_invest_data[i].investment_end,
                final_rent_net_worth |->
                    rent_invest_data[Len(rent_invest_data)].investment_end]]
    /\ pc' = "compare"
    /\ UNCHANGED <<earlier, inputs, rentVars, mortgageVars, buyVars, merged, investment_balance,
                   rent_invest_data, comparison_result>>

\* the tax on the gain as it is, a loss included
capital_gains_tax_unclamped(final_home_value, purchase_price, capital_gains_rate) ==
    FMul(FSub(final_home_value, purchase_price), capital_gains_rate)

\* the capital gains tax of the sale
capital_gains_tax(final_home_value, purchase_price, capital_gains_rate) ==
    FMul(FMax(FSub(final_home_value, purchase_price), FZero), capital_gains_rate)

\* the difference taken the other way round
net_worth_difference_renting_ahead(final_net_equity_buying, final_rent_net_worth) ==
    FSub(final_rent_net_worth, final_net_equity_buying)

net_worth_difference(final_net_equity_buying, final_rent_net_worth) ==
    FSub(final_net_equity_buying, final_rent_net_worth)

compare_scenarios ==
    LET total_rent_outflow == series_sum(Column(rent_df, "total_rent_cost"))
        final_rent_net_worth == rent_invest_df[Len(rent_invest_df)].final_rent_net_worth
        total_buy_outflow == series_sum(Column(buy_df, "total_outflow"))
        last_year == inputs.general.analysis_years
        final_buy_row == SelectSeq(buy_df, LAMBDA r : r.year = last_year)[1]
        final_home_value == final_buy_row.house_value_end
        final_mortgage_balance == final_buy_row.mortgage_balance_end
        raw_equity == FSub(final_home_value, final_mortgage_balance)
        agent_commission == FMul(final_home_value, inputs.selling.agent_commission_rate)
        cgt == capital_gains_tax(final_home_value, inputs.buy.cash_price,
                                 inputs.selling.capital_gains_tax_rate)
        final_net_equity_buying == FSub(FSub(raw_equity, agent_commission), cgt)
    IN  [total_rent_outflow |-> total_rent_outflow,
         final_rent_net_worth |-> final_rent_net_worth,
         total_buy_outflow |-> total_buy_outflow,
         final_net_equity_buying |-> final_net_equity_buying,
         difference_in_net_worth |->
             net_worth_difference(final_net_equity_buying, final_rent_net_worth)]

Compare ==
    /\ pc = "compare"
    /\ comparison_result' = compare_scenarios
    /\ pc' = "done"
    /\ UNCHANGED <<earlier, inputs, rentVars, mortgageVars, buyVars, investVars>>

Next ==
    \/ RentYear
    \/ RentReturn
    \/ BuySetup
    \/ AmortMonth
    \/ AmortDone
    \/ BuyYear
    \/ BuyReturn
    \/ InvestSetup
    \/ InvestYear
    \/ InvestReturn
    \/ Compare

Spec == Init /\ [][Next]_vars

\* The notebook's own run but for the rate: 6,200,000 less 1,200,000 down
\* leaves a loan of 5,000,000, here at 5% over the default 30 years and
\* the default horizon of 30 years.
ScenarioYears == 30
ScenarioTerm == 30

ScenarioInit ==
    /\ inputs = WithTerms(NotebookDefaults, ScenarioYears, ScenarioTerm, Dec(5, 100))
    /\ Start

SpecScenario == ScenarioInit /\ [][Next]_vars

\* The notebook's house with more paid down than it costs: nothing bounds
\* the downpayment, and the loan is 6,200,000 - 6,500,000 = -300,000.  Its
\* payment is below 0 and so below the interest of every month.
Overpaid == [NotebookDefaults EXCEPT !.buy.downpayment = FromInt(6500000)]

OverpaidInit ==
    /\ inputs \in {WithTerms(Overpaid, years, term, rate) :
                      years \in 1..MaxYears, term \in 1..MaxTerm, rate \in MortgageRates}
    /\ Start

SpecOverpaid == OverpaidInit /\ [][Next]_vars

\* Loans of either sign: the configurations of Init and those with more paid
\* down than the house costs
AnyLoanInit ==
    /\ inputs \in Configs \cup
                  {WithTerms(Overpaid, years, term, rate) :
                      years \in 1..MaxYears, term \in 1..MaxTerm, rate \in MortgageRates}
    /\ Start

SpecAnyLoan == AnyLoanInit /\ [][Next]_vars

\* Every profile over a horizon long enough for a fifth year of rent
MaxHorizon == 5

FiveYearInit ==
    /\ inputs \in {WithTerms(p, MaxHorizon, term, rate) :
                      p \in Profiles, term \in 1..MaxTerm, rate \in MortgageRates}
    /\ Start

SpecFiveYears == FiveYearInit /\ [][Next]_vars

\* ------------------------------------------------------------------------
\* Run after run.  The notebook's cells are run again after the
\* configuration is edited, and the form's script is run again on every
\* interaction (streamlitapp.py:478-482).  The tables of the run before are
\* still bound to their names until the new run assigns them; the lists of
\* the functions are those of the new calls.
\* ------------------------------------------------------------------------
MaxRuns == 3

RerunConfigs ==
    {WithTerms(NotebookDefaults, 2, 1, Dec(5, 100)),
     WithTerms(FallingMarket, 2, 1, Dec(5, 100)),
     WithTerms(EvenOutflow, 1, 1, FZero),
     WithTerms(NotebookDefaults, 1, 0, FZero)}

\* what a run that has ended was given and what it has produced
outcome ==
    IF pc = "error"
    THEN [inputs |-> inputs, ended |-> "ZeroDivisionError", rent_df |-> rent_df,
          buy_df |-> None, rent_invest_df |-> None, comparison_result |-> None]
    ELSE [inputs |-> inputs, ended |-> "returned", rent_df |-> rent_df, buy_df |-> buy_df,
          rent_invest_df |-> rent_invest_df, comparison_result |-> comparison_result]

\* The cells are run again on a configuration: calculate_rent_scenario is
\* called and starts from rent_data = [].
Rerun ==
    /\ pc \in {"done", "error"}
    /\ Len(earlier) < MaxRuns - 1
    /\ earlier' = Append(earlier, outcome)
    /\ inputs' \in RerunConfigs
    /\ rent_data' = <<>>
    /\ pc' = "rent"
    /\ UNCHANGED <<rent_df, mortgageVars, buyVars, investVars, comparison_result>>

RerunInit == inputs \in RerunConfigs /\ Start

NextRun ==
    \/ Next
    \/ Rerun

SpecRerun == RerunInit /\ [][NextRun]_vars

\* ------------------------------------------------------------------------
\* Runs with a mortgage rate that is not 0 and too small to count
\* ------------------------------------------------------------------------
\* a mortgage rate of about 1e-18 a year: not 0, and 1 + rate / 12 is 1.0
Vanishing == FDiv(Dec(1, 1000000000), FromInt(1000000000))

TerminationInit ==
    /\ inputs \in {WithTerms(p, years, term, rate) :
                      p \in {NotebookDefaults, EvenOutflow},
                      years \in 1..MaxYears, term \in 0..MaxTerm,
                      rate \in MortgageRates \cup {Vanishing}}
    /\ Start

SpecTermination == TerminationInit /\ [][Next]_vars

\* ------------------------------------------------------------------------
\* The charts.  The notebook draws them in two calls after the summary; the
\* form draws the same nine figures at the end of its script.  The tables
\* are passed as they are, not as copies.
\* ------------------------------------------------------------------------
\* Series.cumsum(): the running sum, added one value after the other
RECURSIVE cumsum_at(_, _)
cumsum_at(values, i) ==
    IF i = 1 THEN values[1] ELSE FAdd(cumsum_at(values, i - 1), values[i])

\* df[name] = values
with_column(df, name, values) ==
    <<>> \o [i \in 1..Len(df) |->
               [f \in DOMAIN df[i] \cup {name} |->
                   IF f = name THEN values[i] ELSE df[i][f]]]

cumulative(df, name) ==
    <<>> \o [i \in 1..Len(df) |-> cumsum_at(Column(df, name), i)]

\* plot_scenarios(rent_df, buy_df, rent_invest_df): three line charts read
\* from the columns
plot_scenarios ==
    /\ pc = "done"
    /\ pc' = "charts"
    /\ UNCHANGED <<earlier, inputs, rentVars, mortgageVars, buyVars, investVars,
                   comparison_result>>

\* plot_additional_comparisons_separate_principal: its charts 1 to 4 and 6
\* are drawn from frames of their own; chart 5 stores the two running sums
\* in the tables it was given.
plot_additional_comparisons_separate_principal ==
    /\ pc = "charts"
    /\ rent_df' = with_column(rent_df, "cumulative_rent_outflow",
                              cumulative(rent_df, "total_rent_cost"))
    /\ buy_df' = with_column(buy_df, "cumulative_buy_outflow",
                             cumulative(buy_df, "total_outflow"))
    /\ pc' = "plotted"
    /\ UNCHANGED <<earlier, inputs, rent_data, mortgageVars, tax_authority_property_value,
                   tax_authority_land_value, buy_data, investVars, comparison_result>>

NextCharts ==
    \/ Next
    \/ plot_scenarios
    \/ plot_additional_comparisons_separate_principal

SpecCharts == Init /\ [][NextCharts]_vars

\* ------------------------------------------------------------------------
\* The form's script.  Every interaction runs it from its first line to its
\* last in a namespace of its own: the results tab, the configuration built
\* from the fields, the four calls, the figures.  A name is bound from the
\* line that assigns it to the end of the run.
\* ------------------------------------------------------------------------
Tables == {"rent_df", "buy_df", "rent_invest_df"}

Figures == {"fig1", "fig2", "fig3", "fig4", "fig5", "fig6", "fig7", "fig8", "fig9"}

\* the names of the calls' results and of the figures that are bound when
\* the script is at a position, had the results tab come after the four calls
names_bound_after_calls(at) ==
    Tables \cup {"comparison_result"} \cup (IF at = "drawn" THEN Figures ELSE {})

\* the names of the calls' results and of the figures that are bound when
\* the script is at a position
names_bound(at) ==
    (IF at \in {"buy_setup", "error", "amort", "buy", "invest_setup", "invest",
                "compare", "done", "drawn"}
     THEN {"rent_df"} ELSE {})
    \cup (IF at \in {"invest_setup", "invest", "compare", "done", "drawn"}
          THEN {"buy_df"} ELSE {})
    \cup (IF at \in {"compare", "done", "drawn"} THEN {"rent_invest_df"} ELSE {})
    \cup (IF at \in {"done", "drawn"} THEN {"comparison_result"} ELSE {})
    \cup (IF at = "drawn" THEN Figures ELSE {})

\* with tab_results: the block tests 'comparison_result' not in locals() and
\* calls st.error; its other branch reads comparison_result, the figures and
\* the tables, and a name that is not bound ends the run in NameError.
tab_results ==
    /\ pc = "tab_results"
    /\ pc' = IF "comparison_result" \notin names_bound(pc) THEN "results_error"
             ELSE IF Figures \cup Tables \subseteq names_bound(pc) THEN "results_shown"
             ELSE "NameError"
    /\ UNCHANGED <<earlier, inputs, rentVars, mortgageVars, buyVars, investVars,
                   comparison_result>>

\* inputs = {...}, from the values of the fields, and the first of the calls
\* is made
build_inputs ==
    /\ pc \in {"results_error", "results_shown"}
    /\ pc' = "rent"
    /\ UNCHANGED <<earlier, inputs, rentVars, mortgageVars, buyVars, investVars,
                   comparison_result>>

\* the tables and the summary are displayed and fig1 to fig9 are drawn; for
\* fig8 the two running sums are stored in the tables
draw_figures ==
    /\ pc = "done"
    /\ rent_df' = with_column(rent_df, "cumulative_rent_outflow",
                              cumulative(rent_df, "total_rent_cost"))
    /\ buy_df' = with_column(buy_df, "cumulative_buy_outflow",
                             cumulative(buy_df, "total_outflow"))
    /\ pc' = "drawn"
    /\ UNCHANGED <<earlier, inputs, rent_data, mortgageVars, tax_authority_property_value,
                   tax_authority_land_value, buy_data, investVars, comparison_result>>

ScriptInit ==
    /\ inputs \in {WithTerms(p, years, term, rate) :
                      p \in Profiles, years \in 1..MaxYears, term \in 0..1,
                      rate \in MortgageRates}
    /\ pc = "tab_results"
    /\ rent_data = <<>> /\ rent_df = None
    /\ loan_amount = None /\ monthly_payment = None /\ mortgage_balance = None
    /\ monthly_records = <<>> /\ monthly_df = None
    /\ tax_authority_property_value = None /\ tax_authority_land_value = None
    /\ buy_data = <<>> /\ buy_df = None
    /\ merged = None /\ investment_balance = None
    /\ rent_invest_data = <<>> /\ rent_invest_df = None
    /\ comparison_result = None
    /\ earlier = <<>>

NextScript ==
    \/ tab_results
    \/ build_inputs
    \/ Next
    \/ draw_figures

SpecScript == ScriptInit /\ [][NextScript]_vars

\* ------------------------------------------------------------------------
\* The interactive form (src/streamlitapp.py) has its own copies of the
\* functions.  Each is taken here as the function of its arguments that
\* its loops compute: the result of a call, not its steps.
\* ------------------------------------------------------------------------
app_payment_denominator(monthly_rate, num_payments) ==
    FSub(One, FPow(FAdd(One, monthly_rate), 0 - num_payments))

\* whether the form's calculate_monthly_mortgage_payment raises ZeroDivisionError
app_payment_raises(principal, annual_interest_rate, years) ==
    IF IsZero(FDiv(annual_interest_rate, FromInt(12))) THEN years * 12 = 0
    ELSE IsZero(app_payment_denominator(FDiv(annual_interest_rate, FromInt(12)), years * 12))

\* the form's payment with the rate of a year for that of a month
app_payment_at_annual_rate(principal, annual_interest_rate, years) ==
    IF IsZero(annual_interest_rate) THEN FDiv(principal, FromInt(years * 12))
    ELSE FMul(principal,
              FDiv(annual_interest_rate,
                   app_payment_denominator(annual_interest_rate, years * 12)))

app_calculate_monthly_mortgage_payment(principal, annual_interest_rate, years) ==
    IF IsZero(FDiv(annual_interest_rate, FromInt(12)))
    THEN FDiv(principal, FromInt(years * 12))
    ELSE FMul(principal,
              FDiv(FDiv(annual_interest_rate, FromInt(12)),
                   app_payment_denominator(FDiv(annual_interest_rate, FromInt(12)),
                                           years * 12)))

app_apply_rent_increase(initial_rent, rent_increase_rate, year) ==
    FMul(initial_rent, FPow(FAdd(One, rent_increase_rate), year - 1))

app_apply_inflation(base_cost, inflation_rate, year) ==
    FMul(base_cost, FPow(FAdd(One, inflation_rate), year - 1))

\* the record of one year of rent
app_rent_year(inp, year, monthly_rent_this_year) ==
    [year |-> year,
     monthly_rent |-> monthly_rent_this_year,
     annual_rent |-> FMul(monthly_rent_this_year, FromInt(12)),
     renters_insurance |-> inp.rent.annual_renters_insurance,
     total_rent_cost |-> FAdd(FMul(monthly_rent_this_year, FromInt(12)),
                              inp.rent.annual_renters_insurance)]

app_calculate_rent_scenario(inp) ==
    <<>> \o [year \in 1..inp.general.analysis_years |->
               app_rent_year(inp, year,
                             app_apply_rent_increase(inp.rent.current_monthly_rent,
                                                     inp.general.rent_increase_rate, year))]

\* the record of month m, from the interest on the balance before it
app_month_of(m, balance, payment, monthly_interest) ==
    [month |-> m,
     interest_paid |-> monthly_interest,
     principal_paid |-> FSub(payment, monthly_interest),
     mortgage_balance |->
         FMax(FSub(balance, FSub(payment, monthly_interest)), FZero)]

app_month(m, balance, payment, annual_interest_rate) ==
    app_month_of(m, balance, payment,
                 FMul(balance, FDiv(annual_interest_rate, FromInt(12))))

\* the balance that the month after the records starts from
app_balance_after(records, loan) ==
    IF Len(records) = 0 THEN loan ELSE records[Len(records)].mortgage_balance

\* the records with those of the next n months; the months are halved, and
\* the first half's records are computed before the second half starts
RECURSIVE app_months(_, _, _, _, _)
app_months_more(records, loan, payment, annual_interest_rate, n) ==
    IF records # records THEN records
    ELSE app_months(records, loan, payment, annual_interest_rate, n)

app_months(records, loan, payment, annual_interest_rate, n) ==
    IF n = 0 THEN records
    ELSE IF n = 1
    THEN Append(records,
                app_month(Len(records) + 1, app_balance_after(records, loan),
                          payment, annual_interest_rate))
    ELSE app_months_more(app_months(records, loan, payment,
                                    annual_interest_rate, n \div 2),
                         loan, payment, annual_interest_rate, n - (n \div 2))

\* monthly_df: the records with their "year" column
app_monthly_df(records) ==
    <<>> \o [i \in 1..Len(records) |->
               [month |-> records[i].month,
                interest_paid |-> records[i].interest_paid,
                principal_paid |-> records[i].principal_paid,
                mortgage_balance |-> records[i].mortgage_balance,
                year |-> ((records[i].month - 1) \div 12) + 1]]

app_property_value_tax(taxable_value, rate_below, rate_above) ==
    IF FLe(taxable_value, FromInt(TaxThreshold))
    THEN FMul(taxable_value, rate_below)
    ELSE FAdd(FMul(FromInt(TaxThreshold), rate_below),
              FMul(FSub(taxable_value, FromInt(TaxThreshold)), rate_above))

\* the record of a year of the buy schedule, from the months of the year,
\* the value the house starts the year with and the two valuations
app_buy_record(inp, year, year_df, house_value_start_year, property_value, land_value) ==
    LET b == inp.buy
        inflation_rate == inp.general.inflation_rate
        paid_off == Len(year_df) = 0
        interest_paid_this_year ==
            IF paid_off THEN FZero ELSE series_sum(Column(year_df, "interest_paid"))
        principal_paid_this_year ==
            IF paid_off THEN FZero ELSE series_sum(Column(year_df, "principal_paid"))
        mortgage_balance_end ==
            IF paid_off THEN FZero ELSE year_df[Len(year_df)].mortgage_balance
        house_value_end_year ==
            FMul(house_value_start_year, FAdd(One, inp.general.house_appreciation_rate))
        property_value_tax_this_year ==
            app_property_value_tax(FMul(property_value, Dec(8, 10)),
                                   b.property_value_tax_rate_below_9200000,
                                   b.property_value_tax_rate_above_9200000)
        land_tax_this_year ==
            FMul(FMul(land_value, FSub(One, Dec(20, 100))), b.land_tax_rate)
        insurance_this_year == app_apply_inflation(b.base_insurance, inflation_rate, year)
        maintenance_this_year ==
            app_apply_inflation(b.base_maintenance, inflation_rate, year)
        renovations_this_year ==
            app_apply_inflation(b.base_renovations, inflation_rate, year)
        community_ownership_cost_this_year ==
            app_apply_inflation(FMul(b.community_ownership_cost, FromInt(12)),
                                inflation_rate, year)
        car_lease_this_year ==
            app_apply_inflation(FMul(b.monthly_car_lease, FromInt(12)), inflation_rate, year)
        net_interest_paid_this_year ==
            FMul(interest_paid_this_year, FSub(One, b.interest_deduction_rate))
    IN  [year |-> year,
         interest_paid |-> net_interest_paid_this_year,
         principal_paid |-> principal_paid_this_year,
         property_value_tax |-> property_value_tax_this_year,
         land_tax |-> land_tax_this_year,
         insurance |-> insurance_this_year,
         maintenance |-> maintenance_this_year,
         renovations |-> renovations_this_year,
         community_ownership_cost |-> community_ownership_cost_this_year,
         car_lease |-> car_lease_this_year,
         total_outflow |->
             FAdd(FAdd(FAdd(FAdd(FAdd(FAdd(FAdd(FAdd(
                 net_interest_paid_this_year,
                 principal_paid_this_year),
                 property_value_tax_this_year),
                 land_tax_this_year),
                 insurance_this_year),
                 maintenance_this_year),
                 renovations_this_year),
                 community_ownership_cost_this_year),
                 car_lease_this_year),
         mortgage_balance_end |-> mortgage_balance_end,
         house_value_start |-> house_value_start_year,
         house_value_end |-> house_value_end_year,
         net_equity_end |-> FSub(house_value_end_year, mortgage_balance_end)]

\* One turn of the yearly loop on st, which holds buy_data and the two
\* valuations: the year's record is appended, then both are revalued.
app_buy_year(inp, monthly, st, year) ==
    [data |->
         Append(st.data,
                app_buy_record(inp, year, SelectSeq(monthly, LAMBDA r : r.year = year),
                               IF year = 1 THEN inp.buy.cash_price
                               ELSE st.data[Len(st.data)].house_value_end,
                               st.property_value, st.land_value)),
     property_value |->
         FMul(st.property_value, FAdd(One, inp.buy.annual_revaluation_rate)),
     land_value |-> FMul(st.land_value, FAdd(One, inp.buy.annual_revaluation_rate))]

\* the turns of the yearly loop from year on
RECURSIVE app_buy_years(_, _, _, _)
app_buy_years_from(inp, monthly, st, year) ==
    IF st # st THEN st ELSE app_buy_years(inp, monthly, st, year)

app_buy_years(inp, monthly, st, year) ==
    IF year > inp.general.analysis_years THEN st
    ELSE app_buy_years_from(inp, monthly, app_buy_year(inp, monthly, st, year), year + 1)

app_buy_schedule(inp, monthly) ==
    IF monthly # monthly THEN <<>>
    ELSE app_buy_years(inp, monthly,
                       [data |-> <<>>,
                        property_value |-> inp.buy.tax_authority_property_value,
                        land_value |-> inp.buy.tax_authority_land_value],
                       1).data

\* the form's amortization of the loan at its payment
app_amortization(inp, loan, payment) ==
    IF payment # payment THEN <<>>
    ELSE app_months(<<>>, loan, payment, inp.buy.mortgage_rate,
                    inp.buy.mortgage_term_years * 12)

app_calculate_buy_scenario(inp) ==
    app_buy_schedule(inp,
        app_monthly_df(
            app_amortization(inp, FSub(inp.buy.cash_price, inp.buy.downpayment),
                app_calculate_monthly_mortgage_payment(
                    FSub(inp.buy.cash_price, inp.buy.downpayment),
                    inp.buy.mortgage_rate, inp.buy.mortgage_term_years))))

\* the frame the form joins the two outflows in
app_merged(rent, buy) ==
    <<>> \o [i \in 1..Len(rent) |->
               [year |-> rent[i].year,
                rent_outflow |-> rent[i].total_rent_cost,
                buy_outflow |-> buy[i].total_outflow]]

\* the record of a year of the investment schedule, from the row of the year
app_invest_record(year, row, investment_start, savings_rate) ==
    [year |-> year,
     rent_outflow |-> row.rent_outflow,
     buy_outflow |-> row.buy_outflow,
     difference |-> FSub(row.buy_outflow, row.rent_outflow),
     investment_start |-> investment_start,
     investment_end |->
         FMul(FAdd(investment_start, FSub(row.buy_outflow, row.rent_outflow)),
              FAdd(One, savings_rate))]

\* the investment loop from year on; rows holds rent_invest_data, and the
\* balance a year starts with is the one the year before ended with
RECURSIVE app_invest_years(_, _, _, _)
app_invest_years_from(inp, frame, rows, year) ==
    IF rows # rows THEN rows ELSE app_invest_years(inp, frame, rows, year)

app_invest_years(inp, frame, rows, year) ==
    IF year > inp.general.analysis_years THEN rows
    ELSE app_invest_years_from(inp, frame,
             Append(rows,
                    app_invest_record(year,
                        SelectSeq(frame, LAMBDA r : r.year = year)[1],
                        IF year = 1 THEN FAdd(inp.buy.downpayment, inp.buy.closing_costs)
                        ELSE rows[Len(rows)].investment_end,
                        inp.general.savings_interest_rate)),
             year + 1)

\* df_rent_invest with its final_rent_net_worth column
app_with_final_net_worth(data) ==
    <<>> \o [i \in 1..Len(data) |->
               [year |-> data[i].year,
                rent_outflow |-> data[i].rent_outflow,
                buy_outflow |-> data[i].buy_outflow,
                difference |-> data[i].difference,
                investment_start |-> data[i].investment_start,
                investment_end |-> data[i].investment_end,
                final_rent_net_worth |-> data[Len(data)].investment_end]]

app_calculate_rent_investment_scenario(inp, rent, buy) ==
    app_with_final_net_worth(app_invest_years(inp, app_merged(rent, buy), <<>>, 1))

app_compare_scenarios(rent, buy, invest, inp) ==
    LET final_rent_net_worth == invest[Len(invest)].final_rent_net_worth
        final_buy_row ==
            SelectSeq(buy, LAMBDA r : r.year = inp.general.analysis_years)[1]
        final_home_value == final_buy_row.house_value_end
        raw_equity == FSub(final_home_value, final_buy_row.mortgage_balance_end)
        agent_commission == FMul(final_home_value, inp.selling.agent_commission_rate)
        capital_gains == FMax(FSub(final_home_value, inp.buy.cash_price), FZero)
        cgt == FMul(capital_gains, inp.selling.capital_gains_tax_rate)
        final_net_equity_buying == FSub(FSub(raw_equity, agent_commission), cgt)
    IN  [total_rent_outflow |-> series_sum(Column(rent, "total_rent_cost")),
         final_rent_net_worth |-> final_rent_net_worth,
         total_buy_outflow |-> series_sum(Column(buy, "total_outflow")),
         final_net_equity_buying |-> final_net_equity_buying,
         difference_in_net_worth |-> FSub(final_net_equity_buying, final_rent_net_worth)]

\* ------------------------------------------------------------------------
\* The amortization schedule
\* ------------------------------------------------------------------------
FAbs(x) == [x EXCEPT !.neg = FALSE]

\* |x - y| <= tolerance * |scale|
Within(x, y, tolerance, scale) == FLe(FAbs(FSub(x, y)), FMul(FAbs(scale), tolerance))

\* one part in 10^9
Tolerance == Dec(1, 1000000000)

\* the schedule is complete: the frame of the months exists
Amortized == pc = "buy" /\ Len(buy_data) = 0

last_month == monthly_df[Len(monthly_df)]

principal_total == series_sum(Column(monthly_df, "principal_paid"))

PaymentKnown == pc \notin {"rent", "buy_setup", "error"}

\* C2: at an annual rate of 0 and a term T > 0 the payment is P / (12 * T),
\* computed without a division by zero, and every month of the schedule has
\* an interest portion of 0 and a principal portion equal to the payment.
C2_ZeroRateDegeneracy ==
    (IsZero(inputs.buy.mortgage_rate) /\ inputs.buy.mortgage_term_years > 0) =>
        /\ pc # "error"
        /\ PaymentKnown =>
              /\ monthly_payment =
                     FDiv(loan_amount, FromInt(12 * inputs.buy.mortgage_term_years))
              /\ \A i \in 1..Len(monthly_records) :
                     /\ monthly_records[i].interest_paid = FZero
                     /\ monthly_records[i].principal_paid = monthly_payment

\* an interest-free schedule with all its months
C2_Witness ==
    /\ IsZero(inputs.buy.mortgage_rate)
    /\ inputs.buy.mortgage_term_years > 0
    /\ Amortized
    /\ Len(monthly_df) = 12 * inputs.buy.mortgage_term_years

\* x is n to the nearest unit or the next: |x - n| <= 1
Approximately(x, n) == FLe(FAbs(FSub(x, FromInt(n))), One)

\* the loan of 5,000,000 at 5% over 30 years
InScenario ==
    /\ PaymentKnown
    /\ loan_amount = FromInt(5000000)
    /\ inputs.buy.mortgage_rate = Dec(5, 100)
    /\ inputs.buy.mortgage_term_years = 30

\* C3 as the specification states it: a principal of 5,000,000 at 5% over
\* 30 years has a monthly payment of approximately 26,854; after the 360
\* months the principal paid is approximately 5,000,000 and the balance 0.
C3_PaymentAbout26854 ==
    InScenario =>
        /\ Approximately(monthly_payment, 26854)
        /\ Amortized =>
              /\ Len(monthly_df) = 360
              /\ Within(principal_total, FromInt(5000000), Tolerance, loan_amount)
              /\ last_month.mortgage_balance = FZero

\* C3 as amended: the monthly payment is approximately 26,841 (the annuity
\* formula gives 26,841.08); after the 360 months the principal paid is
\* 5,000,000 within a tolerance of 10^-9 of it and the balance is 0.
C3_PaymentAbout26841 ==
    InScenario =>
        /\ Approximately(monthly_payment, 26841)
        /\ Amortized =>
              /\ Len(monthly_df) = 360
              /\ Within(principal_total, FromInt(5000000), Tolerance, loan_amount)
              /\ last_month.mortgage_balance = FZero

\* the scenario's schedule with its 360 months
C3_Witness == InScenario /\ Amortized /\ Len(monthly_df) = 360

\* the balance month i starts from
previous_balance(i) ==
    IF i = 1 THEN loan_amount ELSE monthly_df[i - 1].mortgage_balance

monthly_rate_of_run == FDiv(inputs.buy.mortgage_rate, FromInt(12))

\* record i has the interest on the balance before it, the rest of the
\* payment as principal, and that balance less the principal, floored at 0
FollowsRecurrence(i, balance_before, interest) ==
    /\ monthly_df[i].interest_paid = interest
    /\ monthly_df[i].principal_paid = FSub(monthly_payment, interest)
    /\ monthly_df[i].mortgage_balance =
           FMax(FSub(balance_before, FSub(monthly_payment, interest)), FZero)

\* C4: for a term T > 0 the complete schedule has exactly 12 * T records,
\* numbered 1..12*T in order, and each has interest = previous balance *
\* r/12, principal_paid = M - interest and balance = max(previous balance -
\* principal_paid, 0), the previous balance of month 1 being the loan
\* amount cash_price - downpayment.
C4_AmortizationRecurrence ==
    (Amortized /\ inputs.buy.mortgage_term_years > 0) =>
        /\ loan_amount = FSub(inputs.buy.cash_price, inputs.buy.downpayment)
        /\ Len(monthly_df) = 12 * inputs.buy.mortgage_term_years
        /\ \A i \in 1..Len(monthly_df) :
               /\ monthly_df[i].month = i
               /\ FollowsRecurrence(i, previous_balance(i),
                                    FMul(previous_balance(i), monthly_rate_of_run))

\* a complete schedule at a rate above 0: interest is charged on a falling balance
C4_Witness ==
    /\ Amortized
    /\ Len(monthly_df) = 12 * MaxTerm
    /\ FGt(monthly_df[2].interest_paid, FZero)
    /\ FLt(monthly_df[2].interest_paid, monthly_df[1].interest_paid)

taxes_and_costs(r) ==
    FAdd(FAdd(FAdd(FAdd(FAdd(FAdd(r.property_value_tax, r.land_tax), r.insurance),
                        r.maintenance), r.renovations), r.community_ownership_cost),
         r.car_lease)

\* C6: with a term T > 0 shorter than the horizon the run does not fail,
\* and every record of the buy schedule for a year after T has interest 0,
\* principal 0 and balance 0, its outflow being the taxes and cost lines.
C6_PayoffTail ==
    (inputs.buy.mortgage_term_years > 0
        /\ inputs.buy.mortgage_term_years < inputs.general.analysis_years) =>
        /\ pc # "error"
        /\ \A i \in 1..Len(buy_data) :
               buy_data[i].year > inputs.buy.mortgage_term_years =>
                   /\ buy_data[i].interest_paid = FZero
                   /\ buy_data[i].principal_paid = FZero
                   /\ buy_data[i].mortgage_balance_end = FZero
                   /\ buy_data[i].total_outflow = taxes_and_costs(buy_data[i])

\* a finished run whose last two years come after the payoff
C6_Witness ==
    /\ pc = "done"
    /\ inputs.buy.mortgage_term_years = 1
    /\ Len(buy_df) = 3
    /\ FGt(buy_df[1].principal_paid, FZero)
    /\ buy_df[3].principal_paid = FZero

\* C7: in every record of the buy schedule net_equity_end is exactly
\* house_value_end - mortgage_balance_end.
C7_EquityIdentity ==
    \A i \in 1..Len(buy_data) :
        buy_data[i].net_equity_end =
            FSub(buy_data[i].house_value_end, buy_data[i].mortgage_balance_end)

\* a year that ends with a balance outstanding
C7_Witness ==
    /\ pc = "done"
    /\ FGt(buy_df[1].mortgage_balance_end, FZero)
    /\ FLt(buy_df[1].net_equity_end, buy_df[1].house_value_end)

\* ------------------------------------------------------------------------
\* The investment schedule and the summary
\* ------------------------------------------------------------------------
\* the balance year i of the investment schedule starts from
invested_before(i) ==
    IF i = 1 THEN FAdd(inputs.buy.downpayment, inputs.buy.closing_costs)
    ELSE rent_invest_data[i - 1].investment_end

\* the run in which 1,000,000 is invested at 3% and year 1 costs the same
\* either way
EvenRun ==
    /\ inputs.buy.cash_price = EvenOutflow.buy.cash_price
    /\ inputs.general.savings_interest_rate = Dec(3, 100)
    /\ IsZero(inputs.buy.mortgage_rate)
    /\ inputs.buy.mortgage_term_years = 1

\* C8: year 1 of the investment schedule starts from downpayment +
\* closing_costs and every later year from the end of the year before;
\* every year has difference = buy_outflow - rent_outflow, the outflows
\* being those of the two schedules, and investment_end = (investment_start
\* + difference) * (1 + savings_rate).  1,000,000 at 3% with a year-1
\* difference of 0 end year 1 at 1,030,000.
C8_InvestmentRecurrence ==
    /\ \A i \in 1..Len(rent_invest_data) :
           /\ rent_invest_data[i].year = i
           /\ rent_invest_data[i].rent_outflow = rent_df[i].total_rent_cost
           /\ rent_invest_data[i].buy_outflow = buy_df[i].total_outflow
           /\ rent_invest_data[i].investment_start = invested_before(i)
           /\ rent_invest_data[i].difference =
                  FSub(rent_invest_data[i].buy_outflow, rent_invest_data[i].rent_outflow)
           /\ rent_invest_data[i].investment_end =
                  FMul(FAdd(rent_invest_data[i].investment_start,
                            rent_invest_data[i].difference),
                       FAdd(One, inputs.general.savings_interest_rate))
    /\ (EvenRun /\ Len(rent_invest_data) >= 1) =>
           /\ rent_invest_data[1].investment_start = FromInt(1000000)
           /\ rent_invest_data[1].difference = FZero
           /\ rent_invest_data[1].investment_end = FromInt(1030000)

\* the even run, three years long, with deposits after year 1
C8_Witness ==
    /\ pc = "done"
    /\ EvenRun
    /\ Len(rent_invest_df) = 3
    /\ rent_invest_df[2].difference # FZero
    /\ rent_invest_df[3].investment_start = rent_invest_df[2].investment_end

\* C9: the summary's difference_in_net_worth is final_net_equity_buying -
\* final_rent_net_worth, and final_rent_net_worth is the investment_end of
\* the last year of the horizon.
C9_SummaryConsistency ==
    pc = "done" =>
        /\ comparison_result.difference_in_net_worth =
               FSub(comparison_result.final_net_equity_buying,
                    comparison_result.final_rent_net_worth)
        /\ comparison_result.final_rent_net_worth =
               rent_invest_df[inputs.general.analysis_years].investment_end

\* a summary in which buying and renting end apart
C9_Witness ==
    /\ pc = "done"
    /\ inputs.general.analysis_years = MaxYears
    /\ ~IsZero(comparison_result.difference_in_net_worth)

\* the record of the last year of the horizon
final_buy_row == buy_df[inputs.general.analysis_years]

\* the taxed gain of the sale: max(final house value - purchase price, 0)
taxed_gain == FMax(FSub(final_buy_row.house_value_end, inputs.buy.cash_price), FZero)

\* C10: final_net_equity_buying is (house_value_end - mortgage_balance_end)
\* of the last year, less agent_commission_rate * house_value_end, less
\* capital_gains_tax_rate * max(house_value_end - cash_price, 0); for a
\* rate >= 0 the tax term is not negative, also when the house ends below
\* its purchase price.
C10_BuySideNetWorth ==
    pc = "done" =>
        /\ final_buy_row.year = inputs.general.analysis_years
        /\ comparison_result.final_net_equity_buying =
               FSub(FSub(FSub(final_buy_row.house_value_end,
                              final_buy_row.mortgage_balance_end),
                         FMul(final_buy_row.house_value_end,
                              inputs.selling.agent_commission_rate)),
                    FMul(taxed_gain, inputs.selling.capital_gains_tax_rate))
        /\ FGe(inputs.selling.capital_gains_tax_rate, FZero) =>
               FGe(FMul(taxed_gain, inputs.selling.capital_gains_tax_rate), FZero)

\* a sale below the purchase price at a capital gains rate above 0
C10_Witness ==
    /\ pc = "done"
    /\ FLt(final_buy_row.house_value_end, inputs.buy.cash_price)
    /\ FGt(inputs.selling.capital_gains_tax_rate, FZero)

\* ------------------------------------------------------------------------
\* Configurations that cannot be run
\* ------------------------------------------------------------------------
\* C11: a configuration with mortgage_term_years <= 0 (or a horizon <= 0)
\* is rejected before any schedule is built: no record of the rent
\* schedule exists, the rent schedule is never returned, and the payment
\* is never asked for.
C11_FailFastValidation ==
    inputs.buy.mortgage_term_years <= 0 =>
        /\ Len(rent_data) = 0
        /\ rent_df = None
        /\ pc \in {"rent", "error"}

\* ------------------------------------------------------------------------
\* Payments below the interest
\* ------------------------------------------------------------------------
\* the balance month i of the list under construction starts from
balance_before_month(i) ==
    IF i = 1 THEN loan_amount ELSE monthly_records[i - 1].mortgage_balance

\* the payment is less than the interest of month i
PaymentBelowInterest(i) == FLt(monthly_payment, monthly_records[i].interest_paid)

\* the principal of month i is the negative M - interest
NegativePrincipal(i) ==
    /\ monthly_records[i].principal_paid =
           FSub(monthly_payment, monthly_records[i].interest_paid)
    /\ IsNegative(monthly_records[i].principal_paid)

\* the balance of month i is the balance before it less the (negative)
\* principal, and so above it
BalanceGrows(i) ==
    /\ monthly_records[i].mortgage_balance =
           FSub(balance_before_month(i), monthly_records[i].principal_paid)
    /\ FGt(monthly_records[i].mortgage_balance, balance_before_month(i))

\* C12 as the specification states it: no run fails for a payment below
\* the interest, and in every month whose interest is above the payment
\* the recorded principal is the negative M - interest and the balance
\* grows by that amount.
C12_NegativeAmortizationGrows ==
    /\ pc # "error"
    /\ \A i \in 1..Len(monthly_records) :
           PaymentBelowInterest(i) => NegativePrincipal(i) /\ BalanceGrows(i)

\* C12 as amended: the recorded principal is the negative M - interest in
\* every such month, and the balance grows by that amount in every such
\* month that starts from a balance >= 0; a balance below 0 is floored.
C12_NegativeAmortizationPropagates ==
    /\ pc # "error"
    /\ \A i \in 1..Len(monthly_records) :
           PaymentBelowInterest(i) =>
               /\ NegativePrincipal(i)
               /\ FGe(balance_before_month(i), FZero) => BalanceGrows(i)
               /\ FGe(monthly_records[i].mortgage_balance, FZero)

\* a third month with interest above the payment and a balance grown twice
C12_Witness ==
    /\ Len(monthly_records) >= 3
    /\ PaymentBelowInterest(3)
    /\ FGt(monthly_records[3].interest_paid, FZero)
    /\ FGt(monthly_records[3].mortgage_balance, monthly_records[2].mortgage_balance)
    /\ FGt(monthly_records[2].mortgage_balance, monthly_records[1].mortgage_balance)

\* ------------------------------------------------------------------------
\* A mortgage that outlasts the horizon
\* ------------------------------------------------------------------------
\* the buy schedule has been returned
BuyReturned == pc \in {"invest_setup", "invest", "compare", "done"}

\* the balance the amortization leaves after the last month of year y
balance_after_year(y) == monthly_df[12 * y].mortgage_balance

\* C13: with a term longer than the horizon the run does not fail, the buy
\* schedule returned has exactly analysis_years records, the record of
\* year y has the balance after month 12 * y for its mortgage_balance_end,
\* and the summary takes the balance still outstanding after the last year
\* of the horizon off the final house value.
C13_HorizonMismatch ==
    inputs.buy.mortgage_term_years > inputs.general.analysis_years =>
        /\ pc # "error"
        /\ BuyReturned => Len(buy_df) = inputs.general.analysis_years
        /\ \A i \in 1..Len(buy_data) :
               /\ buy_data[i].year = i
               /\ buy_data[i].mortgage_balance_end = balance_after_year(i)
        /\ pc = "done" =>
               comparison_result.final_net_equity_buying =
                   FSub(FSub(FSub(final_buy_row.house_value_end,
                                  balance_after_year(inputs.general.analysis_years)),
                             FMul(final_buy_row.house_value_end,
                                  inputs.selling.agent_commission_rate)),
                        FMul(taxed_gain, inputs.selling.capital_gains_tax_rate))

\* a finished run of one year on a mortgage of two, half of it unpaid
C13_Witness ==
    /\ pc = "done"
    /\ inputs.general.analysis_years = 1
    /\ inputs.buy.mortgage_term_years = 2
    /\ Len(buy_df) = 1
    /\ FGt(buy_df[1].mortgage_balance_end, FZero)
    /\ FGt(monthly_df[1].mortgage_balance, buy_df[1].mortgage_balance_end)

\* ------------------------------------------------------------------------
\* The rent schedule and the growing lines
\* ------------------------------------------------------------------------
\* the lines of the buy schedule that grow with inflation
InflatedLines ==
    {"insurance", "maintenance", "renovations", "community_ownership_cost", "car_lease"}

\* the base amounts of the configuration are not negative
BasesNotNegative ==
    /\ FGe(inputs.rent.current_monthly_rent, FZero)
    /\ FGe(inputs.rent.annual_renters_insurance, FZero)
    /\ FGe(inputs.buy.base_insurance, FZero)
    /\ FGe(inputs.buy.base_maintenance, FZero)
    /\ FGe(inputs.buy.base_renovations, FZero)
    /\ FGe(inputs.buy.community_ownership_cost, FZero)
    /\ FGe(inputs.buy.monthly_car_lease, FZero)

\* C14: for base amounts >= 0, with rent_increase_rate >= 0 the
\* monthly_rent, annual_rent and total_rent_cost of a year are at least
\* those of the year before, and with inflation_rate >= 0 so are the five
\* inflated lines of the buy schedule.
C14_MonotonicSchedules ==
    BasesNotNegative =>
        /\ FGe(inputs.general.rent_increase_rate, FZero) =>
               \A i \in 2..Len(rent_data) :
                   /\ FGe(rent_data[i].monthly_rent, rent_data[i - 1].monthly_rent)
                   /\ FGe(rent_data[i].annual_rent, rent_data[i - 1].annual_rent)
                   /\ FGe(rent_data[i].total_rent_cost, rent_data[i - 1].total_rent_cost)
        /\ FGe(inputs.general.inflation_rate, FZero) =>
               \A i \in 2..Len(buy_data) : \A line \in InflatedLines :
                   FGe(buy_data[i][line], buy_data[i - 1][line])

\* three years of rising rent and rising costs
C14_Witness ==
    /\ pc = "done"
    /\ Len(rent_df) = 3
    /\ FGt(rent_df[3].total_rent_cost, rent_df[2].total_rent_cost)
    /\ FGt(rent_df[2].monthly_rent, rent_df[1].monthly_rent)
    /\ \A line \in InflatedLines : FGt(buy_df[3][line], buy_df[2][line])

\* the rent schedule has been returned
RentReturned == pc # "rent"

\* a rent of 10,000 a month rising by 2% a year
RentExample ==
    /\ inputs.rent.current_monthly_rent = FromInt(10000)
    /\ inputs.general.rent_increase_rate = Dec(2, 100)

\* C15: the rent schedule returned has exactly analysis_years records,
\* for the years 1..N in order; in year y monthly_rent is
\* current_monthly_rent * (1 + rent_increase_rate)^(y-1), annual_rent is
\* 12 * monthly_rent, renters_insurance is the configured amount and
\* total_rent_cost is annual_rent + renters_insurance.  A rent of 10,000
\* rising by 2% is 10000 * 1.02^4, about 10,824.32, in year 5.
C15_RentSchedule ==
    /\ RentReturned => Len(rent_df) = inputs.general.analysis_years
    /\ \A i \in 1..Len(rent_data) :
           /\ rent_data[i].year = i
           /\ rent_data[i].monthly_rent =
                  FMul(inputs.rent.current_monthly_rent,
                       FPow(FAdd(One, inputs.general.rent_increase_rate), i - 1))
           /\ rent_data[i].annual_rent = FMul(rent_data[i].monthly_rent, FromInt(12))
           /\ rent_data[i].renters_insurance = inputs.rent.annual_renters_insurance
           /\ rent_data[i].total_rent_cost =
                  FAdd(rent_data[i].annual_rent, rent_data[i].renters_insurance)
    /\ (RentExample /\ Len(rent_data) >= 5) =>
           /\ rent_data[5].monthly_rent =
                  FMul(FromInt(10000), FPow(FAdd(One, Dec(2, 100)), 4))
           /\ FLe(FAbs(FSub(rent_data[5].monthly_rent, Dec(1082432, 100))), Dec(1, 100))

\* the example's schedule returned, the rent of its fifth year above 10,000
C15_Witness ==
    /\ RentReturned
    /\ RentExample
    /\ Len(rent_df) = 5
    /\ rent_df[1].monthly_rent = FromInt(10000)
    /\ FGt(rent_df[5].monthly_rent, FromInt(10800))

\* ------------------------------------------------------------------------
\* The taxes
\* ------------------------------------------------------------------------
\* the valuation v revalued n times, a year at a time
RECURSIVE revalued(_, _, _)
revalued(v, rate, n) ==
    IF n = 0 THEN v ELSE FMul(revalued(v, rate, n - 1), FAdd(One, rate))

\* 0.8 * the property valuation that year y is taxed on
taxable_in_year(y) ==
    FMul(revalued(inputs.buy.tax_authority_property_value,
                  inputs.buy.annual_revaluation_rate, y - 1),
         Dec(8, 10))

\* the tax on a taxable value above the threshold: the threshold at the
\* lower rate and the excess at the higher
excess_taxed_higher(taxable) ==
    FAdd(FMul(FromInt(TaxThreshold), inputs.buy.property_value_tax_rate_below_9200000),
         FMul(FSub(taxable, FromInt(TaxThreshold)),
              inputs.buy.property_value_tax_rate_above_9200000))

two_tier_tax(taxable) ==
    IF FLe(taxable, FromInt(TaxThreshold))
    THEN FMul(taxable, inputs.buy.property_value_tax_rate_below_9200000)
    ELSE excess_taxed_higher(taxable)

gross_interest(y) ==
    series_sum(Column(SelectSeq(monthly_df, LAMBDA r : r.year = y), "interest_paid"))

\* the nine lines of a record, added in the order of the program's sum
nine_lines(r) ==
    FAdd(FAdd(FAdd(FAdd(FAdd(FAdd(FAdd(FAdd(r.interest_paid, r.principal_paid),
                                            r.property_value_tax), r.land_tax),
                             r.insurance), r.maintenance), r.renovations),
              r.community_ownership_cost), r.car_lease)

\* C17: in every record of the buy schedule interest_paid is the year's
\* gross interest * (1 - interest_deduction_rate), and total_outflow is
\* exactly the sum of the nine recorded lines, with nothing of the
\* downpayment or the closing costs in it.
C17_TotalOutflow ==
    \A i \in 1..Len(buy_data) :
        /\ buy_data[i].interest_paid =
               FMul(gross_interest(i), FSub(One, inputs.buy.interest_deduction_rate))
        /\ buy_data[i].total_outflow = nine_lines(buy_data[i])

\* a year with interest, a deduction on it and all nine lines above 0
C17_Witness ==
    /\ Len(buy_data) >= 1
    /\ FGt(inputs.buy.interest_deduction_rate, FZero)
    /\ FGt(buy_data[1].interest_paid, FZero)
    /\ FLt(buy_data[1].interest_paid, gross_interest(1))
    /\ FGt(buy_data[1].car_lease, FZero)
    /\ FGt(buy_data[1].total_outflow, FAdd(buy_data[1].interest_paid, buy_data[1].principal_paid))

\* the land valuation that year y is taxed on
land_value_in_year(y) ==
    revalued(inputs.buy.tax_authority_land_value, inputs.buy.annual_revaluation_rate, y - 1)

\* v * (1 + annual_revaluation_rate)^n
compounded(v, n) == FMul(v, FPow(FAdd(One, inputs.buy.annual_revaluation_rate), n))

house_value_before(i) ==
    IF i = 1 THEN inputs.buy.cash_price ELSE buy_data[i - 1].house_value_end

\* C19: year 1 starts from the purchase price and every later year from
\* the house_value_end of the year before, and every year ends at
\* house_value_start * (1 + house_appreciation_rate), whatever the
\* mortgage.
C19_HouseValueChain ==
    \A i \in 1..Len(buy_data) :
        /\ buy_data[i].house_value_start = house_value_before(i)
        /\ buy_data[i].house_value_end =
               FMul(buy_data[i].house_value_start,
                    FAdd(One, inputs.general.house_appreciation_rate))

\* three years of a value that moves, chained
C19_Witness ==
    /\ Len(buy_data) = 3
    /\ buy_data[1].house_value_start = inputs.buy.cash_price
    /\ buy_data[3].house_value_start = buy_data[2].house_value_end
    /\ buy_data[3].house_value_end # buy_data[3].house_value_start
    /\ buy_data[2].house_value_end # buy_data[1].house_value_end

\* base * (1 + inflation_rate)^(y-1)
inflated(base, y) == FMul(base, FPow(FAdd(One, inputs.general.inflation_rate), y - 1))

\* the base of a line for a year: the monthly amounts are taken 12 times
annual_base(line) ==
    CASE line = "insurance" -> inputs.buy.base_insurance
      [] line = "maintenance" -> inputs.buy.base_maintenance
      [] line = "renovations" -> inputs.buy.base_renovations
      [] line = "community_ownership_cost" ->
             FMul(inputs.buy.community_ownership_cost, FromInt(12))
      [] line = "car_lease" -> FMul(inputs.buy.monthly_car_lease, FromInt(12))

\* C20: in every year y, before and after the payoff, insurance,
\* maintenance and renovations are their base * (1 + inflation_rate)^(y-1)
\* and community_ownership_cost and car_lease are (monthly base * 12) *
\* (1 + inflation_rate)^(y-1); in year 1 each line is its base for a year.
C20_InflatedCostLines ==
    \A i \in 1..Len(buy_data) : \A line \in InflatedLines :
        /\ buy_data[i][line] = inflated(annual_base(line), i)
        /\ i = 1 => buy_data[i][line] = annual_base(line)

\* a third year, past the payoff, with every line above its base
C20_Witness ==
    /\ Len(buy_data) = 3
    /\ inputs.buy.mortgage_term_years = 1
    /\ buy_data[3].principal_paid = FZero
    /\ \A line \in InflatedLines : FGt(buy_data[3][line], annual_base(line))
\* ------------------------------------------------------------------------
\* The two implementations
\* ------------------------------------------------------------------------
\* the run has produced its summary from schedules of more than one year
\* and a loan that is repaid over more than one year
FullRun ==
    /\ pc = "done"
    /\ Len(buy_df) > 1
    /\ Len(monthly_df) > 12
    /\ ~IsZero(inputs.buy.mortgage_rate)

\* C21: every table the notebook functions return, and the summary, is the
\* one the function of the same name in the interactive form returns for
\* the same arguments; a run the notebook's payment ends with
\* ZeroDivisionError is one the form's payment ends the same way.  Each
\* table is compared where the notebook returns it.
C21_SameAsForm ==
    /\ pc = "buy_setup" => rent_df = app_calculate_rent_scenario(inputs)
    /\ pc = "error" =>
           app_payment_raises(FSub(inputs.buy.cash_price, inputs.buy.downpayment),
                              inputs.buy.mortgage_rate, inputs.buy.mortgage_term_years)
    /\ pc = "invest_setup" =>
           /\ ~app_payment_raises(FSub(inputs.buy.cash_price, inputs.buy.downpayment),
                                  inputs.buy.mortgage_rate,
                                  inputs.buy.mortgage_term_years)
           /\ buy_df = app_calculate_buy_scenario(inputs)
    /\ pc = "compare" =>
           rent_invest_df = app_calculate_rent_investment_scenario(inputs, rent_df, buy_df)
    /\ pc = "done" =>
           comparison_result =
               app_compare_scenarios(rent_df, buy_df, rent_invest_df, inputs)

C21_Witness ==
    /\ FullRun
    /\ buy_df = app_calculate_buy_scenario(inputs)
    /\ comparison_result = app_compare_scenarios(rent_df, buy_df, rent_invest_df, inputs)

\* ------------------------------------------------------------------------
\* Runs on equal configurations
\* ------------------------------------------------------------------------
Ended == pc \in {"done", "error"}

\* C22: the runs of a session that were given equal configurations have
\* produced equal rent, buy and investment tables and equal summaries (or
\* have all ended with the same error), whatever the configurations of the
\* runs between them and before them were.
C22_Deterministic ==
    /\ \A i, j \in 1..Len(earlier) :
           earlier[i].inputs = earlier[j].inputs => earlier[i] = earlier[j]
    /\ Ended =>
           \A i \in 1..Len(earlier) :
               earlier[i].inputs = inputs => earlier[i] = outcome

\* a third run on the configuration of the first, after a run on another
\* configuration that produced another summary
C22_Witness ==
    /\ pc = "done"
    /\ Len(earlier) = 2
    /\ earlier[1].inputs = inputs
    /\ earlier[2].inputs # inputs
    /\ earlier[2].ended = "returned"
    /\ earlier[2].comparison_result # comparison_result
    /\ earlier[1] = outcome

\* ------------------------------------------------------------------------
\* The charting layer
\* ------------------------------------------------------------------------
Drawing == plot_scenarios \/ plot_additional_comparisons_separate_principal

\* C23: drawing the charts leaves the rent, buy and investment tables as
\* they were: no column and no value is added or changed.
C23_ChartsOnlyRead ==
    [][Drawing => UNCHANGED <<rent_df, buy_df, rent_invest_df>>]_vars

\* the tables after the charts: the two running sums are new columns of the
\* rent and the buy table
C23_Witness ==
    /\ pc = "plotted"
    /\ Len(rent_df) > 1
    /\ "cumulative_rent_outflow" \in DOMAIN rent_df[1]
    /\ "cumulative_buy_outflow" \in DOMAIN buy_df[1]
    /\ rent_df # rent_data
    /\ rent_df[2].cumulative_rent_outflow =
           FAdd(rent_df[1].total_rent_cost, rent_df[2].total_rent_cost)

\* ------------------------------------------------------------------------
\* The order of the steps
\* ------------------------------------------------------------------------
\* the rent table and the buy table, with the whole amortization behind it
RentBuilt ==
    /\ Len(rent_df) = inputs.general.analysis_years
    /\ rent_df = rent_data

BuyBuilt ==
    /\ Len(monthly_records) = 12 * inputs.buy.mortgage_term_years
    /\ Len(monthly_df) = 12 * inputs.buy.mortgage_term_years
    /\ Len(buy_df) = inputs.general.analysis_years
    /\ buy_df = buy_data

InvestBuilt ==
    /\ Len(rent_invest_df) = inputs.general.analysis_years
    /\ \A i \in 1..Len(rent_invest_df) :
           rent_invest_df[i].investment_end = rent_invest_data[i].investment_end

\* C24: the yearly loop of the buy schedule starts on the complete
\* 12*T-month amortization; the investment schedule starts, and runs, on the
\* complete rent and buy tables; the summary is computed from the complete
\* investment table.  Nothing of a later step exists while an earlier one
\* is still running.
C24_BuiltBeforeRead ==
    /\ pc \in {"buy_setup", "amort", "buy"} => RentBuilt /\ Len(rent_invest_data) = 0
    /\ pc = "buy" => Len(monthly_df) = 12 * inputs.buy.mortgage_term_years
    /\ pc \in {"invest_setup", "invest"} => RentBuilt /\ BuyBuilt
    /\ pc \in {"compare", "done"} => RentBuilt /\ BuyBuilt /\ InvestBuilt

\* the investment schedule under way, one year of two or more recorded, on
\* tables that are complete and an amortization of two years
C24_Witness ==
    /\ pc = "invest"
    /\ Len(rent_invest_data) = 1
    /\ inputs.general.analysis_years > 1
    /\ Len(monthly_df) = 24
    /\ RentBuilt
    /\ BuyBuilt

\* ------------------------------------------------------------------------
\* Termination
\* ------------------------------------------------------------------------
PositiveTerms ==
    /\ inputs.general.analysis_years >= 1
    /\ inputs.buy.mortgage_term_years >= 1

\* the payment of the configuration divides by zero
PaymentRaises ==
    payment_raises(FSub(inputs.buy.cash_price, inputs.buy.downpayment),
                   inputs.buy.mortgage_rate, inputs.buy.mortgage_term_years)

\* the run has ended with its summary, each loop having appended one record
\* per step: 12*T months, and N years of rent, of buying and of investment
Finished ==
    /\ pc = "done"
    /\ Len(monthly_records) = 12 * inputs.buy.mortgage_term_years
    /\ Len(rent_data) = inputs.general.analysis_years
    /\ Len(buy_data) = inputs.general.analysis_years
    /\ Len(rent_invest_data) = inputs.general.analysis_years
    /\ comparison_result.difference_in_net_worth =
           FSub(comparison_result.final_net_equity_buying,
                comparison_result.final_rent_net_worth)

\* the run has ended in the payment's ZeroDivisionError, after the rent
\* schedule and before any month of the amortization
Raised ==
    /\ pc = "error"
    /\ Len(rent_data) = inputs.general.analysis_years
    /\ Len(monthly_records) = 0

\* the steps of the investment schedule and the summary, all of them: the
\* setup, N years, the return, and compare_scenarios
InvestSteps == 1 + inputs.general.analysis_years + 1 + 1

\* the steps from the yearly loop of the buy schedule on
BuySteps == inputs.general.analysis_years + 1 + InvestSteps

\* the steps from the monthly loop on
AmortSteps == 12 * inputs.buy.mortgage_term_years + 1 + BuySteps

\* the steps the run has left before it stops, from where it is and what
\* its loops have appended so far; raises tells whether its payment divides
\* by zero
Steps(raises) ==
    CASE pc = "rent" ->
             (inputs.general.analysis_years - Len(rent_data)) + 1 + 1
             + (IF raises THEN 0 ELSE AmortSteps)
      [] pc = "buy_setup" -> 1 + (IF raises THEN 0 ELSE AmortSteps)
      [] pc = "amort" ->
             (12 * inputs.buy.mortgage_term_years - Len(monthly_records)) + 1 + BuySteps
      [] pc = "buy" -> (inputs.general.analysis_years - Len(buy_data)) + 1 + InvestSteps
      [] pc = "invest_setup" -> InvestSteps
      [] pc = "invest" -> (inputs.general.analysis_years - Len(rent_invest_data)) + 1 + 1
      [] pc = "compare" -> 1
      [] OTHER -> 0

StepsLeft == Steps(PaymentRaises)

\* one of the statements of the run can be executed: a loop has a turn left
\* or is left, or a call is made
Steppable ==
    \/ pc = "rent" /\ Len(rent_data) <= inputs.general.analysis_years
    \/ pc = "buy_setup"
    \/ pc = "amort" /\ Len(monthly_records) <= 12 * inputs.buy.mortgage_term_years
    \/ pc = "buy" /\ Len(buy_data) <= inputs.general.analysis_years
    \/ pc = "invest_setup"
    \/ pc = "invest" /\ Len(rent_invest_data) <= inputs.general.analysis_years
    \/ pc = "compare"

Stopped == pc \in {"done", "error"}

C25_WitnessRaised ==
    /\ Raised
    /\ PositiveTerms
    /\ ~IsZero(inputs.buy.mortgage_rate)

\* ------------------------------------------------------------------------
\* The configuration
\* ------------------------------------------------------------------------
\* C26: no step of the four functions changes a field of inputs; the yearly
\* revaluation compounds the function's own two variables, and the two
\* valuations of inputs stay as configured.
C26_InputsUnchanged ==
    /\ [][inputs' = inputs]_vars
    /\ [](inputs \in Configs)

\* the end of a run of more than one year: the function's valuations have
\* been revalued, those of the configuration have not
C26_Witness ==
    /\ pc = "done"
    /\ Len(buy_df) > 1
    /\ inputs \in Configs
    /\ ~IsZero(inputs.buy.annual_revaluation_rate)
    /\ FGt(tax_authority_property_value, inputs.buy.tax_authority_property_value)
    /\ FGt(tax_authority_land_value, inputs.buy.tax_authority_land_value)
    /\ inputs.buy.tax_authority_property_value \in
           {FromInt(6822000), FromInt(11400000), FromInt(11500000)}

\* ------------------------------------------------------------------------
\* The split of the payment
\* ------------------------------------------------------------------------
principal_of_year(y) ==
    series_sum(Column(SelectSeq(monthly_df, LAMBDA r : r.year = y), "principal_paid"))

\* a month that starts on a balance already floored to zero
AfterFloor(i) == i > 1 /\ IsZero(monthly_df[i - 1].mortgage_balance)

\* C27 as stated: in every month of the schedule interest + principal_paid
\* is the monthly payment M, and in every year of the term the gross
\* interest plus the principal is 12 * M.
C27_SplitIsPayment ==
    Amortized =>
        /\ \A i \in 1..Len(monthly_df) :
               FAdd(monthly_df[i].interest_paid, monthly_df[i].principal_paid)
                   = monthly_payment
        /\ \A y \in 1..inputs.buy.mortgage_term_years :
               FAdd(gross_interest(y), principal_of_year(y))
                   = FMul(FromInt(12), monthly_payment)

\* C27: in every month of the schedule, those after a balance floored to
\* zero included, principal_paid is the monthly payment M less the interest
\* as the floats subtract, and interest + principal_paid is M within one
\* part in 10^9; in every year of the term the gross interest plus the
\* principal is 12 * M within the same.
C27_SplitIsPaymentRounded ==
    Amortized =>
        /\ \A i \in 1..Len(monthly_df) :
               /\ monthly_df[i].principal_paid =
                      FSub(monthly_payment, monthly_df[i].interest_paid)
               /\ Within(FAdd(monthly_df[i].interest_paid, monthly_df[i].principal_paid),
                         monthly_payment, Tolerance, monthly_payment)
        /\ \A y \in 1..inputs.buy.mortgage_term_years :
               Within(FAdd(gross_interest(y), principal_of_year(y)),
                      FMul(FromInt(12), monthly_payment), Tolerance, monthly_payment)

\* a schedule of two years with a month on a floored balance, whose interest
\* is 0 and whose principal is the whole payment
C27_Witness ==
    /\ Amortized
    /\ Len(monthly_df) = 24
    /\ ~IsZero(inputs.buy.mortgage_rate)
    /\ ~IsZero(monthly_payment)
    /\ AfterFloor(2)
    /\ IsZero(monthly_df[2].interest_paid)
    /\ monthly_df[2].principal_paid = monthly_payment

\* ------------------------------------------------------------------------
\* The results tab of the form
\* ------------------------------------------------------------------------
\* C28: when the results tab's block runs, neither comparison_result nor any
\* of fig1..fig9 is bound yet; the block takes the branch of st.error, and
\* the branch that reads comparison_result and the figures is never run, so
\* that no run ends in NameError.  The names are bound later in the run.
C28_ResultsTabFirst ==
    /\ pc = "tab_results" =>
           /\ "comparison_result" \notin names_bound(pc)
           /\ Figures \cap names_bound(pc) = {}
    /\ pc \notin {"results_shown", "NameError"}
    /\ pc = "drawn" => Figures \cup {"comparison_result"} \subseteq names_bound(pc)

\* the block has run and has shown the error
C28_Witness ==
    /\ pc = "results_error"
    /\ "comparison_result" \notin names_bound(pc)
    /\ Len(rent_data) = 0

====
